---------------------------- MODULE Spec2Model ----------------------------
(***************************************************************************)
(* A model of the grids constraint-propagation solver: the candidate grid  *)
(* (placements.py), the constraint taxonomy (constraints/*.py) and the     *)
(* driver (puzzle.py: reduceConstraints, solve, searchSolutionSpace).      *)
(*                                                                         *)
(* Symbols are the digit strings '1'..'9' of the source, written here as   *)
(* the numbers 1..9; the reserved symbol '*' is written Star.  Locations   *)
(* are the source's zero-relative (row, col) tuples.  None is written as   *)
(* the empty tuple for the size and as the empty set for the alphabet      *)
(* (both are tested only for truthiness in the source).                    *)
(***************************************************************************)
EXTENDS Integers, Sequences, FiniteSets, TLC

VARIABLES stack, ev, input
vars == <<stack, ev, input>>

\* ------------------------------------------------------------------ bounds

\* Cap on stats['passes'] of one puzzle object: solve() may loop for ever.
MaxPasses == 12
\* The most cells given in the initial grid.
MaxGivens == 3
\* The largest target of a cage.
MaxTarget == 6

\* ---------------------------------------------------------------- helpers

\* the symbol '*' of an undetermined cell; the symbols of the alphabets are
\* the numbers from 1 on
Star == 0

Range(s) == {s[k] : k \in DOMAIN s}

RECURSIVE SeqFilterNotIn(_, _)
\* [x for x in s if x not in bad], order kept
SeqFilterNotIn(s, bad) ==
  IF s = <<>> THEN <<>>
  ELSE IF Head(s) \in bad THEN SeqFilterNotIn(Tail(s), bad)
       ELSE <<Head(s)>> \o SeqFilterNotIn(Tail(s), bad)

RECURSIVE SeqFilterIn(_, _)
\* [x for x in s if x in good], order kept
SeqFilterIn(s, good) ==
  IF s = <<>> THEN <<>>
  ELSE IF Head(s) \in good THEN <<Head(s)>> \o SeqFilterIn(Tail(s), good)
       ELSE SeqFilterIn(Tail(s), good)

Min(S) == CHOOSE x \in S : \A y \in S : x <= y

\* The position of the first occurrence of x in s (x occurs in s).
IndexOf(s, x) == Min({k \in DOMAIN s : s[k] = x})

RemoveAt(s, k) == SubSeq(s, 1, k - 1) \o SubSeq(s, k + 1, Len(s))

\* ------------------------------------------------------------ Region algebra

isEmpty(region) == Len(region) = 0

contains(region, location) == location \in Range(region)

hasSubset(region, other) == \A k \in DOMAIN other : other[k] \in Range(region)

hasProperSubset(region, other) ==
  Len(other) < Len(region) /\ hasSubset(region, other)

\* Region([cell for cell in other if cell in self.cells])
intersect(region, other) == SeqFilterIn(other, Range(region))

\* Region([cell for cell in self if not cell in other])
subtract(region, other) == SeqFilterNotIn(region, Range(other))

\* Region(size): reduce(concat, [[(r, c) for r in range(size[0])] for c in range(size[1])])
RECURSIVE ColumnMajor(_, _, _)
ColumnMajor(rows, cols, k) ==
  IF k >= rows * cols THEN <<>>
  ELSE <<<<k % rows, k \div rows>>>> \o ColumnMajor(rows, cols, k + 1)

RegionOfSize(size) == ColumnMajor(size[1], size[2], 0)

\* allLocations(): row by row, column by column
RECURSIVE RowMajor(_, _, _)
RowMajor(rows, cols, k) ==
  IF k >= rows * cols THEN <<>>
  ELSE <<<<k \div cols, k % cols>>>> \o RowMajor(rows, cols, k + 1)

\* chess.parseRect of 'a1-a<cols>' for row r, and of 'a<c>-<lastRow><c>' for column c
RowRegion(r, cols) == [k \in 1..cols |-> <<r, k - 1>>]
ColRegion(c, rows) == [k \in 1..rows |-> <<k - 1, c>>]


\* -------------------------------------------------------------- constraints

\* One record shape for every constraint class; a field a class does not
\* have holds an empty value.
Constraint(kind, region, symbols, lists, target, factored, regions, max) ==
  [kind |-> kind, region |-> region, symbols |-> symbols, lists |-> lists,
   target |-> target, factored |-> factored, regions |-> regions, max |-> max]

SymbolsNumericDigits(max) ==
  Constraint("SymbolsNumericDigits", <<>>, {}, <<>>, 0, FALSE, <<>>, max)
SymbolsNumericByDiameter ==
  Constraint("SymbolsNumericByDiameter", <<>>, {}, <<>>, 0, FALSE, <<>>, 0)
RegionSymbolsConstraint(region, symbols) ==
  Constraint("RegionSymbolsConstraint", region, symbols, <<>>, 0, FALSE, <<>>, 0)
RegionPermutesSymbols(region, symbols) ==
  Constraint("RegionPermutesSymbols", region, symbols, <<>>, 0, FALSE, <<>>, 0)
\* symbols is the union of all the lists
RegionSymbolLists(region, symbolLists) ==
  Constraint("RegionSymbolLists", region,
             UNION {Range(symbolLists[k]) : k \in DOMAIN symbolLists},
             symbolLists, 0, FALSE, <<>>, 0)
RegionIsCompletePermutation(region) ==
  Constraint("RegionIsCompletePermutation", region, {}, <<>>, 0, FALSE, <<>>, 0)
RegionsAreCompletePermutation(regions) ==
  Constraint("RegionsAreCompletePermutation", <<>>, {}, <<>>, 0, FALSE, regions, 0)
EachDimensionIsCompletePermutation ==
  Constraint("EachDimensionIsCompletePermutation", <<>>, {}, <<>>, 0, FALSE, <<>>, 0)
SumIs(region, target) ==
  Constraint("SumIs", region, {}, <<>>, target, FALSE, <<>>, 0)
DifferenceIs(region, target) ==
  Constraint("DifferenceIs", region, {}, <<>>, target, FALSE, <<>>, 0)
ProductIs(region, target) ==
  Constraint("ProductIs", region, {}, <<>>, target, FALSE, <<>>, 0)
QuotientIs(region, target) ==
  Constraint("QuotientIs", region, {}, <<>>, target, FALSE, <<>>, 0)
AllCellsMustHaveMathOp ==
  Constraint("AllCellsMustHaveMathOp", <<>>, {}, <<>>, 0, FALSE, <<>>, 0)

MathOpKinds == {"SumIs", "DifferenceIs", "ProductIs", "QuotientIs"}
isMathOp(c) == c.kind \in MathOpKinds
isCommutative(c) == c.kind \in {"SumIs", "ProductIs"}

\* RegionPermutesSymbols.__init__ raises unless len(symbols) = len(region.cells)
CanPermute(region, nSymbols) == nSymbols = Len(region)

\* RegionSymbolLists.__init__ asserts a non-empty list of lists, each as long
\* as the region
CanList(region, symbolLists) ==
  /\ Len(symbolLists) > 0
  /\ \A k \in DOMAIN symbolLists : Len(symbolLists[k]) = Len(region)

\* -------------------------------------------------------------------- stats

TechniqueNames ==
  {"empty", "filterFromPuzzle", "solo", "filterSolution", "partition", "misfit",
   "borrow", "intersection", "singleValue", "removeKnown", "twoCellOperator",
   "regionOperator", "primeFactors", "makePermutation", "guess"}

\* the passes run and the techniques logged between two values of stats
Work(from, to) ==
  [passes |-> to.passes - from.passes,
   techniques |-> [n \in TechniqueNames |-> to.techniques[n] - from.techniques[n]]]

PlusWork(a, b) ==
  [passes |-> a.passes + b.passes,
   techniques |-> [n \in TechniqueNames |-> a.techniques[n] + b.techniques[n]]]

NoWork ==
  [passes |-> 0, techniques |-> [n \in TechniqueNames |-> 0]]

\* Puzzle.stats of a fresh Puzzle; an absent key reads 0 (firstPasses: -1)
NoStats ==
  [passes |-> 0, plies |-> 0, firstPasses |-> -1,
   techniques |-> [n \in TechniqueNames |-> 0]]

logTechnique(p, name) ==
  [p EXCEPT !.stats.techniques[name] = @ + 1]

\* --------------------------------------------------------------- Placements

\* A faulty setCell: it sets the changed flag even when the cell stays as it was.
setCellAlwaysChanged(p, location, contents) ==
  [p EXCEPT !.cells[location] = contents, !.changed = TRUE]

\* setCell: commits and sets the changed flag only when the contents differ
setCell(p, location, contents) ==
  IF contents /= p.cells[location]
  THEN [p EXCEPT !.cells[location] = contents, !.changed = TRUE]
  ELSE p

\* A faulty isSolved: it only looks for an empty cell.
isSolvedGridNoEmpty(cells) == \A l \in DOMAIN cells : cells[l] /= {}

\* Placements.isSolved: every cell has one symbol, and it is not '*'
isSolvedGrid(cells) ==
  \A l \in DOMAIN cells : Cardinality(cells[l]) = 1 /\ cells[l] /= {Star}

\* A faulty isUnsolvable: it takes a cell that is not determined for an empty one.
isUnsolvableGridUndecided(cells) == \E l \in DOMAIN cells : Cardinality(cells[l]) /= 1

\* Placements.isUnsolvable: some cell has no symbol
isUnsolvableGrid(cells) == \E l \in DOMAIN cells : cells[l] = {}

isInitializedAt(p, location) == Star \notin p.cells[location]

isInitializedThroughout(p, locations) ==
  \A k \in DOMAIN locations : isInitializedAt(p, locations[k])

\* eliminateAt raises on a cell that still is {'*'}
CanEliminateAt(p, location) == p.cells[location] /= {Star}

eliminateAt(p, location, symbols) ==
  setCell(p, location, p.cells[location] \ symbols)

\* eliminateThroughout from the k-th location on: the cells before a raising
\* one stay changed.  [p, raised, hit]: hit lists the locations changed.
RECURSIVE eliminateFrom(_, _, _, _)
eliminateFrom(p, locations, symbols, k) ==
  IF k > Len(locations) THEN [p |-> p, raised |-> FALSE, hit |-> <<>>]
  ELSE IF ~CanEliminateAt(p, locations[k])
       THEN [p |-> p, raised |-> TRUE, hit |-> <<>>]
       ELSE LET q == eliminateAt(p, locations[k], symbols)
                rest == eliminateFrom(q, locations, symbols, k + 1)
            IN [rest EXCEPT !.hit =
                 IF q.cells[locations[k]] /= p.cells[locations[k]]
                 THEN <<locations[k]>> \o @ ELSE @]

eliminateThroughout(p, locations, symbols) ==
  eliminateFrom(p, locations, symbols, 1)

intersectAt(p, location, symbols) ==
  setCell(p, location,
          IF p.cells[location] = {Star} THEN symbols
          ELSE p.cells[location] \cap symbols)

RECURSIVE intersectFrom(_, _, _, _)
intersectFrom(p, locations, symbols, k) ==
  IF k > Len(locations) THEN [p |-> p, hit |-> <<>>]
  ELSE LET q == intersectAt(p, locations[k], symbols)
           rest == intersectFrom(q, locations, symbols, k + 1)
       IN [rest EXCEPT !.hit =
            IF q.cells[locations[k]] /= p.cells[locations[k]]
            THEN <<locations[k]>> \o @ ELSE @]

intersectThroughout(p, locations, symbols) ==
  intersectFrom(p, locations, symbols, 1)

\* indexSymbolsIn(region)[s]: the locations of the region holding s, in
\* region order
indexSymbolsIn(p, region, s) ==
  SeqFilterIn(region, {l \in Range(region) : s \in p.cells[l]})

\* the keys of indexSymbolsIn(region)
IndexKeys(p, region) == UNION {p.cells[l] : l \in Range(region)}

\* The index is a dict in insertion order: s comes before t when the first
\* cell of the region holding s comes before the first cell holding t.  Two
\* symbols first met in the same cell come in that set's iteration order,
\* which the language leaves open.
FirstCell(p, region, s) ==
  Min({k \in DOMAIN region : s \in p.cells[region[k]]})


\* --------------------------------------------------- outcome of a technique

\* What a technique call leaves behind: the puzzle, the constraint itself
\* (primeFactors sets its flag), whether it returned a list (fired) and the
\* list, or whether it raised.
Nothing(p, c) ==
  [p |-> p, cur |-> c, fired |-> FALSE, ret |-> <<>>, raised |-> FALSE]
Returns(p, c, ret) ==
  [p |-> p, cur |-> c, fired |-> TRUE, ret |-> ret, raised |-> FALSE]
Raises(p, c) ==
  [p |-> p, cur |-> c, fired |-> FALSE, ret |-> <<>>, raised |-> TRUE]

\* ------------------------------------- RegionConstraint, RegionSymbolsConstraint

empty(p, c) ==
  IF isEmpty(c.region) THEN Returns(p, c, <<>>) ELSE Nothing(p, c)

\* self.symbols > puzzle.symbols is the proper-superset test of Python sets
filterFromPuzzle(p, c) ==
  IF p.symbols /= {} /\ p.symbols \subseteq c.symbols /\ p.symbols /= c.symbols
  THEN Returns(p, c, <<RegionSymbolsConstraint(c.region, c.symbols \cap p.symbols)>>)
  ELSE Nothing(p, c)

RECURSIVE soloFrom(_, _, _)
soloFrom(p, c, k) ==
  IF k > Len(c.region) THEN p
  ELSE LET q == setCell(p, c.region[k], c.symbols)
       IN soloFrom(IF q.cells /= p.cells THEN logTechnique(q, "solo") ELSE q,
                   c, k + 1)

solo(p, c) ==
  IF p.hasSolution /\ Cardinality(c.symbols) = 1
  THEN Returns(soloFrom(p, c, 1), c, <<>>)
  ELSE Nothing(p, c)

filterSolution(p, c) ==
  IF p.hasSolution
  THEN LET r == intersectThroughout(p, c.region, c.symbols)
       IN Nothing(IF r.hit /= <<>> THEN logTechnique(r.p, "filterSolution")
                  ELSE r.p, c)
  ELSE Nothing(p, c)

\* ------------------------------------------------------- RegionSymbolLists

\* the override: drops the first list holding a symbol outside the alphabet
FirstForeignList(p, c) ==
  Min({k \in DOMAIN c.lists : Range(c.lists[k]) \ p.symbols /= {}})

\* new.remove(slist) removes the first list equal to slist
filterFromPuzzleLists(p, c) ==
  IF p.symbols /= {} /\ \E k \in DOMAIN c.lists : Range(c.lists[k]) \ p.symbols /= {}
  THEN LET slist == c.lists[FirstForeignList(p, c)]
           new == RemoveAt(c.lists, IndexOf(c.lists, slist))
       IN IF CanList(c.region, new)
          THEN Returns(p, c, <<RegionSymbolLists(c.region, new)>>)
          ELSE Raises(p, c)
  ELSE Nothing(p, c)

makePermutation(p, c) ==
  IF Len(c.lists) = 1 /\ Cardinality(c.symbols) = Len(c.region)
  THEN IF CanPermute(c.region, Cardinality(c.symbols))
       THEN Returns(logTechnique(p, "makePermutation"), c,
                    <<RegionPermutesSymbols(c.region, c.symbols)>>)
       ELSE Raises(p, c)
  ELSE Nothing(p, c)

\* --------------------------------------------------- RegionPermutesSymbols

\* remainder(locations, symbols): the constraint over what is left, when it
\* can be constructed
remainderRegion(c, locations) == subtract(c.region, locations)
remainderSymbols(c, symbols) == c.symbols \ symbols
CanRemainder(c, locations, symbols) ==
  CanPermute(remainderRegion(c, locations),
             Cardinality(remainderSymbols(c, symbols)))
remainder(c, locations, symbols) ==
  RegionPermutesSymbols(remainderRegion(c, locations), remainderSymbols(c, symbols))

\* the orders in which iterating a set can list its members
RECURSIVE Orderings(_)
Orderings(S) ==
  IF S = {} THEN {<<>>}
  ELSE UNION {{<<x>> \o o : o \in Orderings(S \ {x})} : x \in S}

\* len('|'.join(subset).split('|')): the number of symbols of the cell again,
\* except that an empty cell comes back as the one-element list ['']
KeyLen(key) == IF key = <<>> THEN 1 ELSE Len(key)

\* The index of partition: the cells holding fewer candidates than the
\* constraint has symbols, each under the key '|'.join(subset), which lists
\* the candidates in the iteration order of that cell's set.
Indexed(p, c) ==
  {k \in DOMAIN c.region :
     Cardinality(p.cells[c.region[k]]) < Cardinality(c.symbols)}
\* the indexed cells whose key can come out equal to or different from the
\* key of another cell: those sharing two or more candidates with one
Shared(p, c) ==
  {k \in Indexed(p, c) :
     /\ Cardinality(p.cells[c.region[k]]) > 1
     /\ \E j \in Indexed(p, c) \ {k} : p.cells[c.region[j]] = p.cells[c.region[k]]}
\* The keys the index can be built with: one listing for every indexed cell.
\* A cell outside Shared has a key no other cell has whatever its listing
\* is, so one listing stands for all of them.
Keyings(p, c) ==
  {[k \in Indexed(p, c) |->
      IF k \in Shared(p, c) THEN choice[k]
      ELSE CHOOSE o \in Orderings(p.cells[c.region[k]]) : TRUE] :
     choice \in {ch \in [Shared(p, c) ->
                          UNION {Orderings(p.cells[c.region[k]]) : k \in Shared(p, c)}] :
                   \A k \in Shared(p, c) : ch[k] \in Orderings(p.cells[c.region[k]])}}
coordList(p, c, keys, key) ==
  SeqFilterIn(c.region, {c.region[k] : k \in {j \in Indexed(p, c) : keys[j] = key}})
\* the positions whose group has as many cells as symbols
Partitionable(p, c, keys) ==
  {k \in Indexed(p, c) : KeyLen(keys[k]) = Len(coordList(p, c, keys, keys[k]))}

\* keys: the keys of this call's index
partition(p, c, keys) ==
  IF Partitionable(p, c, keys) = {} THEN Nothing(p, c)
  ELSE LET first == Min(Partitionable(p, c, keys))
           subset == p.cells[c.region[first]]
           coords == coordList(p, c, keys, keys[first])
       IN IF ~CanRemainder(c, coords, subset) THEN Raises(p, c)
          ELSE LET rem == remainder(c, coords, subset)
                   q == logTechnique(p, "partition")
                   e == eliminateThroughout(q, rem.region, subset)
               IN IF e.raised THEN Raises(e.p, c)
                  ELSE Returns(e.p, c,
                               <<RegionPermutesSymbols(coords, subset), rem>>)

\* the symbols that are a candidate in exactly one cell of the region
Misfits(p, c) ==
  {s \in IndexKeys(p, c.region) : Len(indexSymbolsIn(p, c.region, s)) = 1}
\* those of them the dict can list first
FirstMisfits(p, c) ==
  {s \in Misfits(p, c) :
     \A t \in Misfits(p, c) : FirstCell(p, c.region, s) <= FirstCell(p, c.region, t)}

\* A faulty misfit: it takes the misfit symbol the index lists last.
misfitListedLast(p, c, pick) ==
  IF Misfits(p, c) = {} THEN Nothing(p, c)
  ELSE LET s == CHOOSE x \in Misfits(p, c) :
                  \A t \in Misfits(p, c) :
                     FirstCell(p, c.region, t) <= FirstCell(p, c.region, x)
           locations == indexSymbolsIn(p, c.region, s)
           q == setCell(p, locations[1], {s})
       IN IF ~CanRemainder(c, locations, {s}) THEN Raises(q, c)
          ELSE Returns(logTechnique(q, "misfit"), c,
                       <<remainder(c, locations, {s})>>)

\* pick: the misfit symbol the index lists first
misfit(p, c, pick) ==
  IF Misfits(p, c) = {} THEN Nothing(p, c)
  ELSE LET s == IF pick \in FirstMisfits(p, c) THEN pick
                ELSE Min(FirstMisfits(p, c))
           locations == indexSymbolsIn(p, c.region, s)
           q == setCell(p, locations[1], {s})
       IN IF ~CanRemainder(c, locations, {s}) THEN Raises(q, c)
          ELSE Returns(logTechnique(q, "misfit"), c,
                       <<remainder(c, locations, {s})>>)

\* the constraints of puzzle.constraints borrow can use
Lenders(p, c) ==
  {j \in DOMAIN p.constraints :
     /\ p.constraints[j].kind = "RegionPermutesSymbols"
     /\ hasProperSubset(c.region, p.constraints[j].region)}

borrow(p, c) ==
  IF Lenders(p, c) = {} THEN Nothing(p, c)
  ELSE LET other == p.constraints[Min(Lenders(p, c))]
       IN IF ~CanRemainder(c, other.region, other.symbols) THEN Raises(p, c)
          ELSE LET rem == remainder(c, other.region, other.symbols)
                   q == logTechnique(p, "borrow")
                   e == eliminateThroughout(q, rem.region, other.symbols)
               IN IF e.raised THEN Raises(e.p, c)
                  ELSE Returns(e.p, c, <<rem>>)

\* the symbols of the other constraint's region found only inside the
\* intersection of the two regions
Confined(p, c, other) ==
  LET common == intersect(c.region, other.region)
  IN IF isEmpty(common) \/ Len(common) >= Len(c.region) THEN {}
     ELSE {s \in IndexKeys(p, other.region) :
             hasSubset(common, indexSymbolsIn(p, other.region, s))}
FirstConfined(p, c, other) ==
  {s \in Confined(p, c, other) :
     \A t \in Confined(p, c, other) :
        FirstCell(p, other.region, s) <= FirstCell(p, other.region, t)}
\* i is the place of c in puzzle.constraints (constraint is not self)
Intersecting(p, c, i) ==
  {j \in DOMAIN p.constraints :
     /\ j /= i
     /\ p.constraints[j].kind = "RegionPermutesSymbols"
     /\ Confined(p, c, p.constraints[j]) /= {}}

\* pick: the confined symbol the index lists first
intersection(p, c, i, pick) ==
  IF Intersecting(p, c, i) = {} THEN Nothing(p, c)
  ELSE LET other == p.constraints[Min(Intersecting(p, c, i))]
           s == IF pick \in FirstConfined(p, c, other) THEN pick
                ELSE Min(FirstConfined(p, c, other))
           rest == subtract(c.region, intersect(c.region, other.region))
           q == logTechnique(p, "intersection")
           e == eliminateThroughout(q, rest, {s})
       IN IF e.raised THEN Raises(e.p, c)
          ELSE IF ~CanPermute(c.region, Cardinality(c.symbols)) THEN Raises(e.p, c)
          ELSE Returns(e.p, c, <<RegionPermutesSymbols(c.region, c.symbols)>>)


\* ------------------------------------------------------------------- MathOp

\* x / y of Python, kept only when x == round(x): the exact quotients
\* (targets and symbols are positive here, so y > 0)
ExactQuotient(x, y) == IF y > 0 /\ x % y = 0 THEN {x \div y} ELSE {}

\* inverseList(value, target): [inverse(target, value)], and for the
\* non-commutative operators also operator(value, target); the non-integers
\* are dropped
inverseList(c, value, target) ==
  CASE c.kind = "SumIs" -> {target - value}
    [] c.kind = "DifferenceIs" -> {target + value, value - target}
    [] c.kind = "ProductIs" -> ExactQuotient(target, value)
    [] c.kind = "QuotientIs" -> {target * value} \cup ExactQuotient(value, target)

\* inverseSet(value): the same numbers as symbols, for the constraint's target
inverseSet(c, value) == inverseList(c, value, c.target)

singleValue(p, c) ==
  IF p.symbols /= {} /\ p.hasSolution /\ Len(c.region) = 1
  THEN IF c.target \notin p.symbols THEN Raises(p, c)
       ELSE Returns(setCell(logTechnique(p, "singleValue"), c.region[1], {c.target}),
                    c, <<>>)
  ELSE Nothing(p, c)

\* the value of a cell that removeKnown takes as known
isKnown(cell) == Cardinality(cell) = 1 /\ cell /= {Star}
valueOf(cell) == CHOOSE v \in cell : TRUE

\* A faulty removeKnown: the inverses are not held against the alphabet.
removeKnownAtAnyNumber(p, c, k) ==
  LET inverses == inverseSet(c, valueOf(p.cells[c.region[k]]))
      rest == subtract(c.region, <<c.region[k]>>)
  IN IF Cardinality(inverses) = 1
     THEN <<[c EXCEPT !.target = valueOf(inverses), !.region = rest]>>
     ELSE IF Len(c.region) = 2
          THEN <<RegionSymbolsConstraint(rest, inverses)>>
          ELSE <<>>

\* what removeKnown makes of the known cell at place k, if anything
removeKnownAt(p, c, k) ==
  LET inverses == inverseSet(c, valueOf(p.cells[c.region[k]])) \cap p.symbols
      rest == subtract(c.region, <<c.region[k]>>)
  IN IF Cardinality(inverses) = 1
     THEN <<[c EXCEPT !.target = valueOf(inverses), !.region = rest]>>
     ELSE IF Len(c.region) = 2
          THEN <<RegionSymbolsConstraint(rest, inverses)>>
          ELSE <<>>

removeKnown(p, c) ==
  LET usable == {k \in DOMAIN c.region :
                   isKnown(p.cells[c.region[k]]) /\ removeKnownAt(p, c, k) /= <<>>}
  IN IF p.hasSolution /\ p.symbols /= {} /\ usable /= {}
     THEN Returns(logTechnique(p, "removeKnown"), c, removeKnownAt(p, c, Min(usable)))
     ELSE Nothing(p, c)

RECURSIVE logTimes(_, _, _)
logTimes(p, name, n) ==
  IF n = 0 THEN p ELSE logTimes(logTechnique(p, name), name, n - 1)

\* A faulty checkPair: a partner anywhere in the alphabet is enough.
checkPairAgainstAlphabet(p, c, locations) ==
  LET first == p.cells[locations[1]]
      bad == {x \in first : inverseSet(c, x) \cap p.symbols = {}}
  IN logTimes(eliminateAt(p, locations[1], bad), "twoCellOperator", Cardinality(bad))

\* checkPair(locations): every x of the first cell with no partner in the
\* second is eliminated, one logged firing each
checkPair(p, c, locations) ==
  LET first == p.cells[locations[1]]
      second == p.cells[locations[2]]
      bad == {x \in first : inverseSet(c, x) \cap second = {}}
  IN logTimes(eliminateAt(p, locations[1], bad), "twoCellOperator", Cardinality(bad))

twoCellOperator(p, c) ==
  IF /\ p.symbols /= {} /\ p.hasSolution
     /\ isInitializedThroughout(p, c.region) /\ Len(c.region) = 2
  THEN Nothing(checkPair(checkPair(p, c, c.region), c,
                         <<c.region[2], c.region[1]>>), c)
  ELSE Nothing(p, c)

RECURSIVE canMakeTarget(_, _, _, _)
canMakeTarget(p, c, target, locations) ==
  IF locations = <<>> THEN FALSE
  ELSE IF Len(locations) = 1
       THEN target /= Star /\ target \in p.cells[locations[1]]
       ELSE \E x \in p.cells[locations[1]] :
              \E t \in inverseList(c, x, target) :
                 canMakeTarget(p, c, t, Tail(locations))

canMakeAnyTarget(p, c, targets, locations) ==
  \E t \in targets : canMakeTarget(p, c, t, locations)

\* A faulty checkVersusRest: the candidate is not taken off the target.
checkVersusRestWholeTarget(p, c, location, restLocations) ==
  LET bad == {x \in p.cells[location] :
                ~canMakeTarget(p, c, c.target, restLocations)}
  IN logTimes(eliminateAt(p, location, bad), "regionOperator", Cardinality(bad))

checkVersusRest(p, c, location, restLocations) ==
  LET bad == {x \in p.cells[location] :
                ~canMakeAnyTarget(p, c, inverseList(c, x, c.target), restLocations)}
  IN logTimes(eliminateAt(p, location, bad), "regionOperator", Cardinality(bad))

RECURSIVE regionOperatorFrom(_, _, _)
regionOperatorFrom(p, c, k) ==
  IF k > Len(c.region) THEN p
  ELSE regionOperatorFrom(
         checkVersusRest(p, c, c.region[k], RemoveAt(c.region, k)), c, k + 1)

regionOperator(p, c) ==
  IF p.symbols /= {} /\ p.hasSolution /\ isInitializedThroughout(p, c.region)
  THEN Nothing(regionOperatorFrom(p, c, 1), c)
  ELSE Nothing(p, c)

\* ------------------------------------------------------------- factoring

\* sorted([i] + rest) for an ascending rest
RECURSIVE InsertSorted(_, _)
InsertSorted(i, rest) ==
  IF rest = <<>> THEN <<i>>
  ELSE IF i <= Head(rest) THEN <<i>> \o rest
       ELSE <<Head(rest)>> \o InsertSorted(i, Tail(rest))

\* appends the combos [i] + rest that were not yielded yet
RECURSIVE YieldNew(_, _, _, _)
YieldNew(seen, i, rests, k) ==
  IF k > Len(rests) THEN seen
  ELSE LET combo == InsertSorted(i, rests[k])
       IN YieldNew(IF combo \in Range(seen) THEN seen ELSE Append(seen, combo),
                   i, rests, k + 1)

RECURSIVE factorizations(_, _)
RECURSIVE factorsFrom(_, _, _, _)
\* the loop over i of factorizations(n, m), from i on
factorsFrom(n, m, i, seen) ==
  IF i > n THEN seen
  ELSE IF n % i /= 0 THEN factorsFrom(n, m, i + 1, seen)
  ELSE LET yielded == YieldNew(seen, i, factorizations(n \div i, m - 1), 1)
       \* the lists of this i are computed before the loop goes on
       IN IF yielded = <<>> THEN factorsFrom(n, m, i + 1, <<>>)
          ELSE factorsFrom(n, m, i + 1, yielded)

\* A faulty factorizations: the number 1 is one factor, however many are
\* asked for.
factorizationsOneFactor(n, m) ==
  IF n = 1 THEN <<<<1>>>>
  ELSE IF m = 1 THEN <<<<n>>>>
       ELSE factorsFrom(n, m, 1, <<>>)

\* the lists factorizations(n, m) yields, in the order it yields them
factorizations(n, m) ==
  IF n = 1 THEN <<[k \in 1..m |-> 1]>>
  ELSE IF m = 1 THEN <<<<n>>>>
       ELSE factorsFrom(n, m, 1, <<>>)

RECURSIVE KeepInAlphabet(_, _)
KeepInAlphabet(lists, symbols) ==
  IF lists = <<>> THEN <<>>
  ELSE IF Range(Head(lists)) \subseteq symbols
       THEN <<Head(lists)>> \o KeepInAlphabet(Tail(lists), symbols)
       ELSE KeepInAlphabet(Tail(lists), symbols)

\* A faulty primeFactors: it does not look at its flag.
primeFactorsEveryTime(p, c) ==
  IF p.symbols /= {} /\ p.hasSolution
  THEN LET allSymbolLists ==
             KeepInAlphabet(factorizations(c.target, Len(c.region)), p.symbols)
       IN IF ~CanList(c.region, allSymbolLists) THEN Raises(p, c)
          ELSE LET self == [c EXCEPT !.factored = TRUE]
               IN Returns(logTechnique(p, "primeFactors"), self,
                          <<self, RegionSymbolLists(c.region, allSymbolLists)>>)
  ELSE Nothing(p, c)

primeFactors(p, c) ==
  IF p.symbols /= {} /\ p.hasSolution /\ ~c.factored
  THEN LET allSymbolLists ==
             KeepInAlphabet(factorizations(c.target, Len(c.region)), p.symbols)
       IN IF ~CanList(c.region, allSymbolLists) THEN Raises(p, c)
          ELSE LET self == [c EXCEPT !.factored = TRUE]
               IN Returns(logTechnique(p, "primeFactors"), self,
                          <<self, RegionSymbolLists(c.region, allSymbolLists)>>)
  ELSE Nothing(p, c)


\* ------------------------------------------------------------------- Puzzle

\* A Puzzle object.  hasInitial / hasSolution: initial / solution is not
\* None; cells and changed are the solution Placements' cells and flag.
NoCells == [l \in {} |-> {}]

Puzzle(size, symbols, hasInitial, hasSolution, cells, changed, constraints, stats) ==
  [size |-> size, symbols |-> symbols, hasInitial |-> hasInitial,
   hasSolution |-> hasSolution, cells |-> cells, changed |-> changed,
   constraints |-> constraints, stats |-> stats]

isSolved(p) == p.hasSolution /\ isSolvedGrid(p.cells)
isUnsolvable(p) == p.hasSolution /\ isUnsolvableGrid(p.cells)
isFinished(p) == isSolved(p) \/ isUnsolvable(p)

\* expandStars over the locations from the k-th on; cell.value() raises
\* StopIteration on an empty cell.  [p, raised]
RECURSIVE expandFrom(_, _, _)
expandFrom(p, locations, k) ==
  IF k > Len(locations) THEN [p |-> p, raised |-> FALSE]
  ELSE IF p.cells[locations[k]] = {} THEN [p |-> p, raised |-> TRUE]
       ELSE expandFrom(IF p.cells[locations[k]] = {Star}
                       THEN setCell(p, locations[k], p.symbols) ELSE p,
                       locations, k + 1)

\* A faulty expandStars: it passes over the first location.
expandStarsButFirst(p) ==
  IF p.size /= <<>> /\ p.hasSolution /\ p.symbols /= {}
  THEN expandFrom(p, RegionOfSize(p.size), 2)
  ELSE [p |-> p, raised |-> FALSE]

expandStars(p) ==
  IF p.size /= <<>> /\ p.hasSolution /\ p.symbols /= {}
  THEN expandFrom(p, RegionOfSize(p.size), 1)
  ELSE [p |-> p, raised |-> FALSE]

\* setInitial(size[1] * '*' for each row): fresh initial and solution grids
\* (their changed flag unset), the size they have, and expandStars
setInitialStars(p) ==
  expandStars([p EXCEPT !.hasInitial = TRUE, !.hasSolution = TRUE,
                        !.cells = [l \in Range(RegionOfSize(p.size)) |-> {Star}],
                        !.changed = FALSE])

\* ---------------------------------------------- constraints without techniques

\* Each of these returns [p, ret, same, raised]: same says that the list
\* returned is [self], which is what reduceConstraints compares it with.
Applied(p, ret, same) == [p |-> p, ret |-> ret, same |-> same, raised |-> FALSE]
ApplyRaises(p) == [p |-> p, ret |-> <<>>, same |-> FALSE, raised |-> TRUE]

applySymbolsNumericDigits(p, c) ==
  Applied([p EXCEPT !.symbols = 1..c.max], <<>>, FALSE)

applySymbolsNumericByDiameter(p, c) ==
  IF p.size /= <<>>
  THEN IF p.size[2] /= p.size[1] THEN ApplyRaises(p)
       ELSE Applied(p, <<SymbolsNumericDigits(p.size[1])>>, FALSE)
  ELSE Applied(p, <<c>>, TRUE)

\* A faulty RegionIsCompletePermutation: it does not wait for the alphabet.
applyRegionIsCompletePermutationAtOnce(p, c) ==
  IF CanPermute(c.region, Cardinality(p.symbols))
  THEN Applied(p, <<RegionPermutesSymbols(c.region, p.symbols)>>, FALSE)
  ELSE ApplyRaises(p)

applyRegionIsCompletePermutation(p, c) ==
  IF p.symbols /= {}
  THEN IF CanPermute(c.region, Cardinality(p.symbols))
       THEN Applied(p, <<RegionPermutesSymbols(c.region, p.symbols)>>, FALSE)
       ELSE ApplyRaises(p)
  ELSE Applied(p, <<c>>, TRUE)

applyRegionsAreCompletePermutation(p, c) ==
  Applied(p, [k \in DOMAIN c.regions |-> RegionIsCompletePermutation(c.regions[k])],
          FALSE)

\* A faulty expansion: the columns come before the rows.
applyEachDimensionColumnsFirst(p, c) ==
  IF p.size /= <<>>
  THEN Applied(p, <<RegionsAreCompletePermutation(
                      [k \in 1..p.size[2] |-> ColRegion(k - 1, p.size[1])]
                      \o [k \in 1..p.size[1] |-> RowRegion(k - 1, p.size[2])])>>,
               FALSE)
  ELSE Applied(p, <<c>>, TRUE)

\* the rows a.., then the columns 1..
applyEachDimensionIsCompletePermutation(p, c) ==
  IF p.size /= <<>>
  THEN Applied(p, <<RegionsAreCompletePermutation(
                      [k \in 1..p.size[1] |-> RowRegion(k - 1, p.size[2])]
                      \o [k \in 1..p.size[2] |-> ColRegion(k - 1, p.size[1])])>>,
               FALSE)
  ELSE Applied(p, <<c>>, TRUE)

inMathOp(p, location) ==
  \E j \in DOMAIN p.constraints :
     isMathOp(p.constraints[j]) /\ contains(p.constraints[j].region, location)

\* A faulty check: it looks at the first coordinate only.
applyAllCellsFirstOnly(p, c) ==
  IF p.size /= <<>>
  THEN LET e == IF ~p.hasInitial THEN setInitialStars(p)
                ELSE [p |-> p, raised |-> FALSE]
       IN IF e.raised THEN ApplyRaises(e.p)
          ELSE IF ~inMathOp(p, RegionOfSize(p.size)[1])
               THEN ApplyRaises(e.p)
               ELSE Applied(e.p, <<>>, FALSE)
  ELSE Applied(p, <<c>>, TRUE)

applyAllCellsMustHaveMathOp(p, c) ==
  IF p.size /= <<>>
  THEN LET e == IF ~p.hasInitial THEN setInitialStars(p)
                ELSE [p |-> p, raised |-> FALSE]
       IN IF e.raised THEN ApplyRaises(e.p)
          ELSE IF \E l \in Range(RegionOfSize(p.size)) : ~inMathOp(p, l)
               THEN ApplyRaises(e.p)
               ELSE Applied(e.p, <<>>, FALSE)
  ELSE Applied(p, <<c>>, TRUE)

applyOverride(p, c) ==
  CASE c.kind = "SymbolsNumericDigits" -> applySymbolsNumericDigits(p, c)
    [] c.kind = "SymbolsNumericByDiameter" -> applySymbolsNumericByDiameter(p, c)
    [] c.kind = "RegionIsCompletePermutation" -> applyRegionIsCompletePermutation(p, c)
    [] c.kind = "RegionsAreCompletePermutation" -> applyRegionsAreCompletePermutation(p, c)
    [] c.kind = "EachDimensionIsCompletePermutation" ->
         applyEachDimensionIsCompletePermutation(p, c)
    [] c.kind = "AllCellsMustHaveMathOp" -> applyAllCellsMustHaveMathOp(p, c)

\* ------------------------------------------------------------ techniques()

\* A faulty order: misfit is tried before partition.
techniquesMisfitFirst(c) ==
  CASE c.kind = "RegionSymbolsConstraint" ->
         <<"empty", "filterFromPuzzle", "solo", "filterSolution">>
    [] c.kind = "RegionPermutesSymbols" ->
         <<"empty", "filterFromPuzzle", "solo", "filterSolution",
           "misfit", "partition", "borrow", "intersection">>
    [] c.kind = "RegionSymbolLists" ->
         <<"empty", "filterFromPuzzle", "solo", "filterSolution", "makePermutation">>
    [] c.kind \in {"SumIs", "DifferenceIs", "QuotientIs"} ->
         <<"empty", "singleValue", "removeKnown", "twoCellOperator", "regionOperator">>
    [] c.kind = "ProductIs" ->
         <<"empty", "singleValue", "removeKnown", "twoCellOperator", "regionOperator",
           "primeFactors">>
    [] OTHER -> <<>>

techniques(c) ==
  CASE c.kind = "RegionSymbolsConstraint" ->
         <<"empty", "filterFromPuzzle", "solo", "filterSolution">>
    [] c.kind = "RegionPermutesSymbols" ->
         <<"empty", "filterFromPuzzle", "solo", "filterSolution",
           "partition", "misfit", "borrow", "intersection">>
    [] c.kind = "RegionSymbolLists" ->
         <<"empty", "filterFromPuzzle", "solo", "filterSolution", "makePermutation">>
    [] c.kind \in {"SumIs", "DifferenceIs", "QuotientIs"} ->
         <<"empty", "singleValue", "removeKnown", "twoCellOperator", "regionOperator">>
    [] c.kind = "ProductIs" ->
         <<"empty", "singleValue", "removeKnown", "twoCellOperator", "regionOperator",
           "primeFactors">>
    [] OTHER -> <<>>

\* technique(puzzle) for the technique called name of the constraint c, the
\* i-th of puzzle.constraints
technique(name, p, c, i, pick) ==
  CASE name = "empty" -> empty(p, c)
    [] name = "filterFromPuzzle" ->
         IF c.kind = "RegionSymbolLists" THEN filterFromPuzzleLists(p, c)
         ELSE filterFromPuzzle(p, c)
    [] name = "solo" -> solo(p, c)
    [] name = "filterSolution" -> filterSolution(p, c)
    [] name = "partition" -> partition(p, c, pick)
    [] name = "misfit" -> misfit(p, c, pick)
    [] name = "borrow" -> borrow(p, c)
    [] name = "intersection" -> intersection(p, c, i, pick)
    [] name = "makePermutation" -> makePermutation(p, c)
    [] name = "singleValue" -> singleValue(p, c)
    [] name = "removeKnown" -> removeKnown(p, c)
    [] name = "twoCellOperator" -> twoCellOperator(p, c)
    [] name = "regionOperator" -> regionOperator(p, c)
    [] name = "primeFactors" -> primeFactors(p, c)

\* what the set iteration order decides in this call: the keys of the index
\* of partition, the symbol misfit or intersection finds first
Picks(name, p, c, i) ==
  IF name = "partition" THEN Keyings(p, c)
  ELSE IF name = "misfit" /\ Misfits(p, c) /= {} THEN FirstMisfits(p, c)
  ELSE IF name = "intersection" /\ Intersecting(p, c, i) /= {}
       THEN FirstConfined(p, c, p.constraints[Min(Intersecting(p, c, i))])
       ELSE {Star}


\* Constraint.apply from its t-th technique on, c the i-th constraint of
\* puzzle: every way it can end, over what the iteration orders decide
RECURSIVE applyFrom(_, _, _, _)
applyFrom(p, c, i, t) ==
  IF t > Len(techniques(c)) THEN {Applied(p, <<c>>, TRUE)}
  ELSE UNION {LET o == technique(techniques(c)[t], p, c, i, pick)
                  q == [o.p EXCEPT !.constraints[i] = o.cur]
              IN IF o.raised THEN {ApplyRaises(q)}
                 ELSE IF o.fired THEN {Applied(q, o.ret, FALSE)}
                 ELSE applyFrom(q, o.cur, i, t + 1) :
                pick \in Picks(techniques(c)[t], p, c, i)}

\* puzzle.constraints[i].apply(puzzle)
apply(p, i) ==
  LET c == p.constraints[i]
  IN IF techniques(c) = <<>> THEN {applyOverride(p, c)}
     ELSE IF ~(p.hasSolution /\ p.symbols /= {}) THEN {Applied(p, <<c>>, TRUE)}
     ELSE applyFrom(p, c, i, 1)


\* ------------------------------------------------------------------- driver

\* One activation of solve() on one Puzzle object: the object, the place
\* reached in solve / reduceConstraints / searchSolutionSpace and their
\* locals.  The fields from start on are kept for the properties only:
\*   start        the grid, the constraint list and stats['passes'] as the
\*                running call of reduceConstraints found them
\*   touched      some step of the running call left the grid other than it
\*                found it
\*   still        the last call that returned left the grid and the
\*                constraint list equal to what it found
\*   stillBefore  the same, of the call before the last
\*   calls        the calls of reduceConstraints on this object
\*   lived        the (region, symbols) of every RegionPermutesSymbols that
\*                was in the constraint list of this object, or of the
\*                objects it was copied from up to the copy, or of a branch
\*                whose solution it adopted
\*   searched     the grid as searchSolutionSpace found it
\*   returned     the lists the apply calls of the running call of
\*                reduceConstraints returned, in the order of the calls
\*   emptied      the cells that a step of the running call of
\*                reduceConstraints left empty and had not found empty
\*   born         the stats this object started from: those of the object
\*                it was copied from, at the copy
\*   entry        the stats as searchSolutionSpace found them
\*   branches     the passes run and the techniques logged in the branches
\*                searchSolutionSpace explored so far
Frame(p) ==
  [p |-> p, pc |-> "solve", i |-> 0, t |-> 0, newConstraints |-> <<>>,
   constraintsChanged |-> FALSE, ret |-> FALSE, location |-> <<>>, tried |-> {},
   result |-> FALSE,
   start |-> [cells |-> p.cells, constraints |-> p.constraints,
              passes |-> p.stats.passes],
   touched |-> FALSE, still |-> FALSE, stillBefore |-> FALSE, calls |-> 0,
   lived |-> {}, searched |-> p.cells, returned |-> <<>>,
   born |-> p.stats, entry |-> p.stats, branches |-> NoWork, emptied |-> {}]

Top == stack[Len(stack)]
SetTop(f) == [stack EXCEPT ![Len(stack)] = f]

\* what the last step was
Event(op, name, before, fired, same, ret) ==
  [op |-> op, name |-> name, before |-> before, fired |-> fired, same |-> same,
   ret |-> ret]
NoEvent == Event("init", "", <<>>, FALSE, FALSE, <<>>)

\* the RegionPermutesSymbols constraints of a list, as (region, symbols)
PermutationsOf(constraints) ==
  {<<constraints[k].region, constraints[k].symbols>> :
     k \in {j \in DOMAIN constraints :
              constraints[j].kind = "RegionPermutesSymbols"}}

\* reduceConstraints up to its loop: clears the changed flag, expands the stars
reduceConstraintsBegin ==
  /\ stack /= <<>>
  /\ Top.pc = "solve"
  /\ Top.p.stats.passes < MaxPasses
  /\ LET f == Top
         p == IF f.p.hasSolution THEN [f.p EXCEPT !.changed = FALSE] ELSE f.p
         e == expandStars(p)
     IN /\ stack' = SetTop([f EXCEPT !.p = e.p,
                                     !.pc = IF e.raised THEN "raised" ELSE "pass",
                                     !.i = 1, !.t = 1, !.newConstraints = <<>>,
                                     !.constraintsChanged = FALSE,
                                     !.start = [cells |-> f.p.cells,
                                                constraints |-> f.p.constraints,
                                                passes |-> f.p.stats.passes],
                                     !.touched = e.p.cells /= f.p.cells,
                                     !.calls = @ + 1,
                                     !.returned = <<>>, !.emptied = {}])
        /\ ev' = Event("begin", "expandStars", f.p, FALSE, FALSE, <<>>)
  /\ UNCHANGED input

\* A faulty loop: it puts the list an apply returned before the others.
AfterApplyInFront(f, p, ret, same) ==
  [f EXCEPT !.p = p, !.i = @ + 1, !.t = 1,
            !.newConstraints = ret \o @,
            !.constraintsChanged = @ \/ ~same,
            !.touched = @ \/ p.cells /= f.p.cells,
            !.returned = Append(@, ret)]

\* the frame after c.apply(self) returned ret for the i-th constraint
AfterApply(f, p, ret, same) ==
  [f EXCEPT !.p = p, !.i = @ + 1, !.t = 1,
            !.newConstraints = @ \o ret,
            !.constraintsChanged = @ \/ ~same,
            !.touched = @ \/ p.cells /= f.p.cells,
            !.returned = Append(@, ret)]

\* the frame g that a step of the pass made of f, with the cells it emptied
Emptying(f, g) ==
  [g EXCEPT !.emptied = @ \cup {l \in DOMAIN g.p.cells \cap DOMAIN f.p.cells :
                                  g.p.cells[l] = {} /\ f.p.cells[l] /= {}}]

\* One step of c.apply(self) for the constraint the loop of reduceConstraints
\* is at: the whole apply of a class that overrides it, else the next
\* technique of Constraint.apply.
ApplyStep ==
  /\ stack /= <<>>
  /\ Top.pc = "pass"
  /\ Top.i <= Len(Top.p.constraints)
  /\ LET f == Top
         c == f.p.constraints[f.i]
         names == techniques(c)
     IN IF names = <<>>
        THEN LET a == applyOverride(f.p, c)
             IN /\ stack' = SetTop(Emptying(f,
                     IF a.raised THEN [f EXCEPT !.p = a.p, !.pc = "raised"]
                     ELSE AfterApply(f, a.p, a.ret, a.same)))
                /\ ev' = Event(IF a.raised THEN "raise" ELSE "apply", c.kind, f.p,
                               TRUE, a.same, a.ret)
        ELSE IF ~(f.p.hasSolution /\ f.p.symbols /= {})
        THEN /\ stack' = SetTop(Emptying(f, AfterApply(f, f.p, <<c>>, TRUE)))
             /\ ev' = Event("apply", c.kind, f.p, FALSE, TRUE, <<c>>)
        ELSE \E pick \in Picks(names[f.t], f.p, c, f.i) :
               LET o == technique(names[f.t], f.p, c, f.i, pick)
                   \* primeFactors changes the constraint object itself
                   q == [o.p EXCEPT !.constraints[f.i] = o.cur]
               IN /\ stack' = SetTop(Emptying(f,
                       IF o.raised THEN [f EXCEPT !.p = q, !.pc = "raised"]
                       ELSE IF o.fired THEN AfterApply(f, q, o.ret, FALSE)
                       ELSE IF f.t = Len(names) THEN AfterApply(f, q, <<o.cur>>, TRUE)
                       ELSE [f EXCEPT !.p = q, !.t = @ + 1,
                                      !.touched = @ \/ q.cells /= f.p.cells]))
                  /\ ev' = Event(IF o.raised THEN "raise" ELSE "technique",
                                 names[f.t], f.p, o.fired, ~o.fired, o.ret)
  /\ UNCHANGED input

\* the end of reduceConstraints
reduceConstraintsEnd ==
  /\ stack /= <<>>
  /\ Top.pc = "pass"
  /\ Top.i > Len(Top.p.constraints)
  /\ LET f == Top
         p == [f.p EXCEPT !.constraints = f.newConstraints,
                          !.stats.passes = @ + 1]
     IN /\ stack' = SetTop([f EXCEPT
                 !.p = p, !.pc = "loop",
                 !.ret = f.constraintsChanged \/ (p.hasSolution /\ p.changed),
                 !.stillBefore = f.still,
                 !.still = /\ p.cells = f.start.cells
                           /\ p.constraints = f.start.constraints,
                 !.lived = @ \cup PermutationsOf(p.constraints)])
        /\ ev' = Event("end", "reduceConstraints", f.p, FALSE, FALSE, <<>>)
  /\ UNCHANGED input

\* solve(): while self.reduceConstraints() and not self.isFinished(); then
\* the search if not finished; then return self.isSolved()
solve ==
  /\ stack /= <<>>
  /\ Top.pc = "loop"
  /\ LET f == Top
     IN /\ stack' = SetTop(
             IF f.ret /\ ~isFinished(f.p) THEN [f EXCEPT !.pc = "solve"]
             ELSE IF ~isFinished(f.p) THEN [f EXCEPT !.pc = "search"]
             ELSE [f EXCEPT !.pc = "done", !.result = isSolved(f.p)])
        /\ ev' = Event("solve", "solve", f.p, FALSE, FALSE, <<>>)
  /\ UNCHANGED input

\* index[len(cell)] = location over allLocations(): the last location of each
\* size above 1; then the entry of the least size
Undecided(p) == {l \in DOMAIN p.cells : Cardinality(p.cells[l]) > 1}
LeastCount(p) == Min({Cardinality(p.cells[l]) : l \in Undecided(p)})
RowMajorRank(p, l) == IndexOf(RowMajor(p.size[1], p.size[2], 0), l)
\* A faulty choice: the first cell of the least size, not the last.
guessLocationFirst(p) ==
  CHOOSE l \in Undecided(p) :
    /\ Cardinality(p.cells[l]) = LeastCount(p)
    /\ \A m \in Undecided(p) :
         Cardinality(p.cells[m]) = LeastCount(p) => RowMajorRank(p, l) <= RowMajorRank(p, m)

guessLocation(p) ==
  CHOOSE l \in Undecided(p) :
    /\ Cardinality(p.cells[l]) = LeastCount(p)
    /\ \A m \in Undecided(p) :
         Cardinality(p.cells[m]) = LeastCount(p) => RowMajorRank(p, m) <= RowMajorRank(p, l)

\* searchSolutionSpace up to its loop; counts[0] raises when no cell has two
\* candidates, self.solution.allLocations() when there is no grid
searchSolutionSpaceBegin ==
  /\ stack /= <<>>
  /\ Top.pc = "search"
  /\ LET f == Top
     IN /\ stack' = SetTop(
             IF ~f.p.hasSolution \/ Undecided(f.p) = {} THEN [f EXCEPT !.pc = "raised"]
             ELSE [f EXCEPT !.pc = "guessing", !.tried = {},
                            !.searched = f.p.cells,
                            !.entry = f.p.stats, !.branches = NoWork,
                            !.location = guessLocation(f.p),
                            !.p.stats.firstPasses =
                               IF @ = -1 THEN f.p.stats.passes ELSE @,
                            !.p.stats.plies = @ + 1])
        /\ ev' = Event("search", "searchSolutionSpace", f.p, FALSE, FALSE, <<>>)
  /\ UNCHANGED input

\* p = copy.deepcopy(self); p.solution.setCell(location, {s});
\* p.logTechnique('guess'); p.solve() begins.  The copy is a frame of its
\* own: nothing it does reaches the parent's frame.
guess ==
  /\ stack /= <<>>
  /\ Top.pc = "guessing"
  /\ \E s \in Top.p.cells[Top.location] \ Top.tried :
       LET f == Top
           p == logTechnique(setCell(f.p, f.location, {s}), "guess")
       IN /\ stack' = Append(SetTop([f EXCEPT !.tried = @ \cup {s}]),
                             [Frame(p) EXCEPT !.lived = f.lived,
                                              !.born = f.p.stats])
          /\ ev' = Event("guess", "guess", f.p, TRUE, FALSE, <<>>)
  /\ UNCHANGED input

\* A faulty adoption: the parent takes the grid of a failed branch too.
adoptAlways(parent, child, solved) ==
  [parent EXCEPT !.stats = child.stats, !.hasSolution = child.hasSolution,
                 !.cells = child.cells, !.changed = child.changed]

\* A faulty adoption: the parent takes the stats only, also on success.
adoptStatsOnly(parent, child, solved) ==
  [parent EXCEPT !.stats = child.stats]

\* A faulty adoption: the stats of a failed branch are dropped with it.
adoptOnSuccessOnly(parent, child, solved) ==
  IF solved
  THEN [parent EXCEPT !.stats = child.stats, !.hasSolution = child.hasSolution,
                      !.cells = child.cells, !.changed = child.changed]
  ELSE parent

\* the parent after p.solve() returned: it takes the stats, and on success
\* the solution too and returns
adopt(parent, child, solved) ==
  IF solved
  THEN [parent EXCEPT !.stats = child.stats, !.hasSolution = child.hasSolution,
                      !.cells = child.cells, !.changed = child.changed]
  ELSE [parent EXCEPT !.stats = child.stats]

branchReturns ==
  /\ Len(stack) > 1
  /\ Top.pc = "done"
  /\ LET child == Top
         f == stack[Len(stack) - 1]
         p == adopt(f.p, child.p, child.result)
         rest == SubSeq(stack, 1, Len(stack) - 2)
     IN /\ stack' = rest \o
             <<IF child.result
               THEN [f EXCEPT !.p = p, !.pc = "done", !.result = isSolved(p),
                              !.lived = @ \cup child.lived,
                              !.branches = PlusWork(@, Work(child.born, child.p.stats))]
               ELSE [f EXCEPT !.p = p,
                              !.branches = PlusWork(@, Work(child.born, child.p.stats))]>>
        /\ ev' = Event("return", "solve", f.p, child.result, FALSE, <<>>)
  /\ UNCHANGED input

\* an exception of the branch passes through searchSolutionSpace and solve
branchRaises ==
  /\ Len(stack) > 1
  /\ Top.pc = "raised"
  /\ LET f == stack[Len(stack) - 1]
     IN /\ stack' = SubSeq(stack, 1, Len(stack) - 2) \o <<[f EXCEPT !.pc = "raised"]>>
        /\ ev' = Event("raise", "solve", f.p, FALSE, FALSE, <<>>)
  /\ UNCHANGED input

\* the loop over the candidates is over: return False, and solve returns
\* self.isSolved()
searchExhausted ==
  /\ stack /= <<>>
  /\ Top.pc = "guessing"
  /\ Top.p.cells[Top.location] \subseteq Top.tried
  /\ stack' = SetTop([Top EXCEPT !.pc = "done", !.result = isSolved(Top.p)])
  /\ ev' = Event("exhausted", "searchSolutionSpace", Top.p, FALSE, FALSE, <<>>)
  /\ UNCHANGED input


\* ------------------------------------------------------------------- inputs

Locs2x2 == {<<0, 0>>, <<0, 1>>, <<1, 0>>, <<1, 1>>}

\* the initial grids over locs whose cells are '*' but for at most MaxGivens
\* cells, which hold one of the given candidate sets
Grids(locs, choices) ==
  {g \in [locs -> choices \cup {{Star}}] :
     Cardinality({l \in locs : g[l] /= {Star}}) <= MaxGivens}

\* the Puzzle after addConstraints: setInitial built both grids and the size
Configured(size, cells, constraints) ==
  Puzzle(size, {}, TRUE, TRUE, cells, FALSE, constraints, NoStats)

\* 2 x 2 Latin squares over 1..2 with some cells given
LatinPuzzles ==
  {Configured(<<2, 2>>, g,
              <<SymbolsNumericDigits(2), EachDimensionIsCompletePermutation>>) :
     g \in Grids(Locs2x2, {{1}, {2}})}

\* two permutations of 1..3 over regions that share two cells, the cells
\* given as candidate lists
OverlapPuzzles ==
  {Configured(<<2, 2>>, g,
              <<SymbolsNumericDigits(3),
                RegionPermutesSymbols(<<<<0, 0>>, <<0, 1>>, <<1, 0>>>>, {1, 2, 3}),
                RegionPermutesSymbols(<<<<0, 0>>, <<0, 1>>, <<1, 1>>>>, {1, 2, 3})>>) :
     g \in Grids(Locs2x2, {{1}, {1, 2}, {2, 3}})}

\* a row of three cells that permutes 1..3, with one cage over its last two
\* cells or over all of it
Locs1x3 == {<<0, 0>>, <<0, 1>>, <<0, 2>>}
Cages ==
  {[kind |-> k, region |-> r, target |-> t] :
     k \in MathOpKinds,
     r \in {<<<<0, 1>>, <<0, 2>>>>, <<<<0, 0>>, <<0, 1>>, <<0, 2>>>>},
     t \in 1..MaxTarget}
CagePuzzles ==
  {Configured(<<1, 3>>, g,
              <<SymbolsNumericDigits(3),
                RegionPermutesSymbols(<<<<0, 0>>, <<0, 1>>, <<0, 2>>>>, {1, 2, 3}),
                Constraint(m.kind, m.region, {}, <<>>, m.target, FALSE, <<>>, 0)>>) :
     g \in Grids(Locs1x3, {{1}, {3}}),
     m \in {n \in Cages : Len(n.region) = 2 \/ n.kind \in {"SumIs", "ProductIs"}}}

\* two cells over the alphabet 1..2 and one permutation whose symbols are
\* drawn from 1..3, over the first cell or over both
Locs1x2 == {<<0, 0>>, <<0, 1>>}
ForeignPuzzles ==
  {Configured(<<1, 2>>, g,
              <<SymbolsNumericDigits(2), RegionPermutesSymbols(m[1], m[2])>>) :
     g \in Grids(Locs1x2, {{1}, {2}}),
     m \in {n \in {<<<<0, 0>>>>, <<<<0, 0>>, <<0, 1>>>>} \X SUBSET (1..3) :
              Cardinality(n[2]) = Len(n[1])}}

\* RegionPermutesSymbols(region, symbols) as the caller writes it, symbols a
\* list: __init__ compares the length of the list with the number of cells
\* and keeps the symbols as a set.  [c, raised]
newRegionPermutesSymbols(region, symbols) ==
  [c |-> RegionPermutesSymbols(region, Range(symbols)),
   raised |-> ~CanPermute(region, Len(symbols))]

\* two cells over the alphabet 1..2 and one permutation over both, written
\* with a list of two symbols
RepeatedPuzzles ==
  {Configured(<<1, 2>>, g, <<SymbolsNumericDigits(2), n.c>>) :
     g \in Grids(Locs1x2, {{1}, {2}}),
     n \in {m \in {newRegionPermutesSymbols(<<<<0, 0>>, <<0, 1>>>>, symbols) :
                     symbols \in [1..2 -> 1..2] \cup [1..3 -> 1..2]} :
              ~m.raised}}

\* two cells over the alphabet 1..2, a permutation of 1 and 3 over both, and
\* a constraint over the second cell alone: a permutation of one symbol or
\* a sum
OneCellPuzzles ==
  {Configured(<<1, 2>>, g,
              <<SymbolsNumericDigits(2),
                RegionPermutesSymbols(<<<<0, 0>>, <<0, 1>>>>, {1, 3}), c>>) :
     g \in Grids(Locs1x2, {{1}, {2}}),
     c \in {RegionPermutesSymbols(<<<<0, 1>>>>, {s}) : s \in 1..2}
          \cup {Constraint("SumIs", <<<<0, 1>>>>, {}, <<>>, t, FALSE, <<>>, 0) :
                  t \in 1..2}}

\* four cells over the alphabet 1..5 and one permutation of 1..4 over all
\* of them, the cells given as '*', as 5 or as a list of two candidates
FourCellPuzzles ==
  {Configured(<<2, 2>>, g,
              <<SymbolsNumericDigits(5),
                RegionPermutesSymbols(<<<<0, 0>>, <<0, 1>>, <<1, 0>>, <<1, 1>>>>,
                                      {1, 2, 3, 4})>>) :
     g \in [Locs2x2 -> {{Star}, {5}, {1, 2}, {1, 3}, {2, 3}}]}

\* four cells over the alphabet 1..4, a permutation of the one symbol 1 over
\* the first cell and then one of 1..4 over all four, some cells given as 1
LenderPuzzles ==
  {Configured(<<2, 2>>, g,
              <<SymbolsNumericDigits(4),
                RegionPermutesSymbols(<<<<0, 0>>>>, {1}),
                RegionPermutesSymbols(<<<<0, 0>>, <<0, 1>>, <<1, 0>>, <<1, 1>>>>,
                                      {1, 2, 3, 4})>>) :
     g \in Grids(Locs2x2, {{1}})}

\* a row of two cells over the alphabet 1..2, every row and column to be a
\* complete permutation: the columns have one cell each
RowPuzzles ==
  {Configured(<<1, 2>>, g,
              <<SymbolsNumericDigits(2), EachDimensionIsCompletePermutation>>) :
     g \in Grids(Locs1x2, {{1}, {2}})}

\* a row of two cells over the alphabet 1..2 with its cages and the check
\* that every cell has one, before the cages or after them; the grid is
\* given, or only the size is
CoveredPuzzles ==
  {Puzzle(<<1, 2>>, {}, g /= NoCells, g /= NoCells, g, FALSE, constraints, NoStats) :
     g \in Grids(Locs1x2, {{1}, {2}}) \cup {NoCells},
     constraints \in
       {<<SymbolsNumericDigits(2), AllCellsMustHaveMathOp,
          SumIs(<<<<0, 0>>>>, 1), SumIs(<<<<0, 1>>>>, 2)>>,
        <<SymbolsNumericDigits(2), SumIs(<<<<0, 0>>>>, 1), SumIs(<<<<0, 1>>>>, 2),
          AllCellsMustHaveMathOp>>,
        <<SymbolsNumericDigits(2), SumIs(<<<<0, 0>>>>, 1), AllCellsMustHaveMathOp>>,
        <<SymbolsNumericDigits(2), SumIs(<<<<0, 0>>, <<0, 1>>>>, 3),
          AllCellsMustHaveMathOp>>}}

\* two cells over the alphabet 1..4 and one constraint over both: a product,
\* or one or two lists of symbols as the caller writes them, 5 not being of
\* the alphabet
SymbolListChoices == {<<1, 2>>, <<2, 2>>, <<1, 5>>, <<5, 5>>}
ListPuzzles ==
  {Configured(<<1, 2>>, g, <<SymbolsNumericDigits(4), c>>) :
     g \in Grids(Locs1x2, {{1}, {2}}),
     c \in {ProductIs(<<<<0, 0>>, <<0, 1>>>>, t) : t \in 4..6}
          \cup {RegionSymbolLists(<<<<0, 0>>, <<0, 1>>>>, lists) :
                  lists \in [1..1 -> SymbolListChoices]
                            \cup [1..2 -> SymbolListChoices]}}

Puzzles ==
  LatinPuzzles \cup OverlapPuzzles \cup CagePuzzles \cup ForeignPuzzles
  \cup RepeatedPuzzles \cup OneCellPuzzles \cup FourCellPuzzles
  \cup LenderPuzzles \cup ListPuzzles \cup RowPuzzles \cup CoveredPuzzles

Init ==
  /\ input \in Puzzles
  /\ stack = <<[Frame(input) EXCEPT !.lived = PermutationsOf(input.constraints)]>>
  /\ ev = NoEvent

Next ==
  \/ reduceConstraintsBegin
  \/ ApplyStep
  \/ reduceConstraintsEnd
  \/ solve
  \/ searchSolutionSpaceBegin
  \/ guess
  \/ branchReturns
  \/ branchRaises
  \/ searchExhausted

Spec == Init /\ [][Next]_vars

\* --------------------------------------------------------------- properties

\* the frame of the outermost solve(), once it has returned true
SolvedTrue == Len(stack) = 1 /\ Top.pc = "done" /\ Top.result

\* every cell of region holds one symbol of symbols, no two the same
Permutes(cells, region, symbols) ==
  /\ \A k \in DOMAIN region :
       Cardinality(cells[region[k]]) = 1 /\ cells[region[k]] \subseteq symbols
  /\ \A j, k \in DOMAIN region : j /= k => cells[region[j]] /= cells[region[k]]

\* C1: whenever solve() returns true, the cells of the region of every
\* RegionPermutesSymbols constraint that was live during the solve hold
\* pairwise distinct symbols of that constraint's symbol set.
C1_PermutationsHold ==
  SolvedTrue => \A rs \in Top.lived : Permutes(Top.p.cells, rs[1], rs[2])

RECURSIVE SeqSum(_)
SeqSum(v) == IF v = <<>> THEN 0 ELSE Head(v) + SeqSum(Tail(v))
RECURSIVE SeqProduct(_)
SeqProduct(v) == IF v = <<>> THEN 1 ELSE Head(v) * SeqProduct(Tail(v))

\* the operator of cage c over the values of its cells gives its target; a
\* difference or quotient in some order of the operands, the quotient exact
CageHolds(c, cells) ==
  LET v == [k \in DOMAIN c.region |-> valueOf(cells[c.region[k]])]
  IN CASE c.kind = "SumIs" -> SeqSum(v) = c.target
       [] c.kind = "ProductIs" -> SeqProduct(v) = c.target
       [] c.kind = "DifferenceIs" ->
            \E k \in DOMAIN v : v[k] - SeqSum(RemoveAt(v, k)) = c.target
       [] c.kind = "QuotientIs" ->
            \E k \in DOMAIN v : v[k] = c.target * SeqProduct(RemoveAt(v, k))

\* C2: whenever solve() returns true, every MathOp cage of the puzzle gives
\* its target exactly over the values of the cells of its original region.
C2_CagesHold ==
  SolvedTrue =>
    \A k \in DOMAIN input.constraints :
      isMathOp(input.constraints[k]) => CageHolds(input.constraints[k], Top.p.cells)

\* C3: after solve() returns true, every cell of the grid has exactly one
\* symbol (and that symbol is not '*').
C3_OneSymbolEach ==
  \A k \in DOMAIN stack :
    (stack[k].pc = "done" /\ stack[k].result) =>
      \A l \in DOMAIN stack[k].p.cells :
        Cardinality(stack[k].p.cells[l]) = 1 /\ stack[k].p.cells[l] /= {Star}

\* solve() has returned true and left constraints in the list
C3_SolvedWithLiveConstraints == SolvedTrue /\ Top.p.constraints /= <<>>

\* re-applying the i-th constraint of p changes no cell and returns the
\* constraint itself or nothing
Settled(p, i) ==
  \A o \in apply(p, i) :
    ~o.raised /\ o.p.cells = p.cells /\ (o.same \/ o.ret = <<>>)

\* C3 as stated: after solve() returns true every cell has exactly one
\* symbol, and re-applying any constraint still in the list changes nothing.
C3_NothingLeftToApply ==
  C3_OneSymbolEach /\
  (SolvedTrue => \A i \in DOMAIN Top.p.constraints : Settled(Top.p, i))

\* C4: every call of reduceConstraints that returns true has changed a cell
\* or the constraint list, so that the loop of solve() cannot go on for ever.
C4_TruePassProgresses ==
  \A k \in DOMAIN stack :
    (stack[k].pc = "loop" /\ stack[k].ret) => ~stack[k].still

\* C5: once an elimination has left a cell empty, nothing applied after it
\* raises: the puzzle is reported unsolvable instead.
C5_EmptyCellNeverRaises ==
  ev.op = "raise" => ~isUnsolvableGrid(ev.before.cells)

\* C6: in every state of a solve, every cell is {'*'}, empty, or a subset of
\* the alphabet (once the alphabet is known).
C6_CellsWithinAlphabet ==
  \A k \in DOMAIN stack :
    \A l \in DOMAIN stack[k].p.cells :
      \/ stack[k].p.cells[l] = {Star}
      \/ stack[k].p.cells[l] = {}
      \/ stack[k].p.symbols = {}
      \/ stack[k].p.cells[l] \subseteq stack[k].p.symbols

\* a Puzzle but for its stats
SansStats(p) == [p EXCEPT !.stats = NoStats]

\* C7: while a branch runs on its copy, and when it returns having failed or
\* raises, the Puzzle it was copied from keeps its grid, its constraint list
\* and the state of its constraints: only its stats change.
C7_BranchLeavesParent ==
  [][\A k \in DOMAIN stack :
       (/\ k < Len(stack)
        /\ k \in DOMAIN stack'
        /\ ~(stack'[k].pc = "done" /\ stack'[k].result))
       => SansStats(stack'[k].p) = SansStats(stack[k].p)]_vars

\* a branch that did some work has returned false to its parent
C7_FailedBranchReturned ==
  /\ ev.op = "return" /\ ~ev.fired
  /\ Top.p.stats /= ev.before.stats
  /\ Top.p.cells = ev.before.cells

\* C8: if a call of reduceConstraints changes no cell and leaves the
\* constraint list as it was, the call right after it does the same and
\* returns a falsy value.
C8_SecondCallIdle ==
  \A k \in DOMAIN stack :
    (stack[k].pc = "loop" /\ stack[k].calls >= 2 /\ stack[k].stillBefore) =>
      (stack[k].still /\ ~stack[k].ret)

\* C9: a call of reduceConstraints that returns has added one to
\* stats['passes'], and returns a truthy value iff some apply returned a list
\* other than [the constraint] or some step of the call changed a cell.
C9_PassCountedAndReported ==
  \A k \in DOMAIN stack :
    stack[k].pc = "loop" =>
      /\ stack[k].p.stats.passes = stack[k].start.passes + 1
      /\ stack[k].ret <=> (stack[k].constraintsChanged \/ stack[k].touched)

\* a call returned true only because a cell changed
C9_TrueForACellOnly ==
  Top.pc = "loop" /\ Top.ret /\ ~Top.constraintsChanged /\ Top.touched

\* C10: solve() returns true iff the grid is solved when it returns; a stalled
\* unfinished puzzle goes to the search; the parent of a branch that succeeds
\* takes its grid and stats and returns true at once; when every candidate
\* has failed the grid is as the search found it and solve() returns false.
C10_SolveAndSearch ==
  [][/\ \A k \in DOMAIN stack' :
          stack'[k].pc = "done" =>
            (stack'[k].result <=>
               \A l \in DOMAIN stack'[k].p.cells :
                 Cardinality(stack'[k].p.cells[l]) = 1
                 /\ stack'[k].p.cells[l] /= {Star})
     /\ (Top.pc = "loop" /\ ~Top.ret /\ ~isFinished(Top.p)) =>
          (Len(stack') = Len(stack) /\ stack'[Len(stack')].pc = "search")
     /\ (ev'.op = "return" /\ ev'.fired) =>
          /\ Len(stack') = Len(stack) - 1
          /\ stack'[Len(stack')].p.cells = Top.p.cells
          /\ stack'[Len(stack')].p.stats = Top.p.stats
          /\ stack'[Len(stack')].pc = "done"
          /\ stack'[Len(stack')].result
     /\ ev'.op = "exhausted" =>
          /\ Top.tried = Top.p.cells[Top.location]
          /\ stack'[Len(stack')].p.cells = Top.searched
          /\ stack'[Len(stack')].pc = "done"
          /\ ~stack'[Len(stack')].result]_vars

\* a branch succeeded while candidates of the guessed cell were still untried
C10_AdoptedFirstSuccess ==
  /\ ev.op = "return" /\ ev.fired
  /\ Top.pc = "done" /\ Top.result
  /\ Top.tried /= ev.before.cells[Top.location]


\* ------------------------------------------------- calls on a Placements

\* A Placements object: its cells, its changed flag, and whether an onChange
\* hook is installed.
Placements(cells, changed, onChange) ==
  [cells |-> cells, changed |-> changed, onChange |-> onChange]

\* What a call on a Placements leaves behind: the object, the value returned,
\* the calls of onChange it made, or that it raised.
Called(g, ret, hooks) == [g |-> g, ret |-> ret, hooks |-> hooks, raised |-> FALSE]
CallRaises(g) == [g |-> g, ret |-> FALSE, hooks |-> <<>>, raised |-> TRUE]

\* A faulty setCell: it commits before it calls the hook.
setCellHookAfter(g, location, contents) ==
  LET q == setCell(g, location, contents)
  IN Called(q, contents /= g.cells[location],
            IF contents /= g.cells[location] /\ g.onChange
            THEN <<[cells |-> q.cells, location |-> location,
                    old |-> g.cells[location], new |-> contents]>>
            ELSE <<>>)

\* setCell as a call: onChange(self, location, old, new) is called, with the
\* grid as it is at that moment, before the cell is assigned
setCellCall(g, location, contents) ==
  LET old == g.cells[location]
  IN IF contents /= old
     THEN Called(setCell(g, location, contents), TRUE,
                 IF g.onChange
                 THEN <<[cells |-> g.cells, location |-> location,
                         old |-> old, new |-> contents]>>
                 ELSE <<>>)
     ELSE Called(g, FALSE, <<>>)

\* A faulty eliminateAt: it takes an uninitialized cell for an initialized one.
eliminateAtNoCheck(g, location, symbols) ==
  setCellCall(g, location, g.cells[location] \ symbols)

\* eliminateAt as a call: raises on {'*'}, else returns what setCell returns
eliminateAtCall(g, location, symbols) ==
  IF ~CanEliminateAt(g, location) THEN CallRaises(g)
  ELSE setCellCall(g, location, g.cells[location] \ symbols)

\* A faulty intersectAt: it intersects an uninitialized cell too.
intersectAtNoStar(g, location, symbols) ==
  setCellCall(g, location, g.cells[location] \cap symbols)

\* intersectAt as a call
intersectAtCall(g, location, symbols) ==
  setCellCall(g, location,
              IF g.cells[location] = {Star} THEN symbols
              ELSE g.cells[location] \cap symbols)

\* the candidate sets of the cells of the grids the calls are made on
CellChoices == {{}, {Star}, {1}, {2}, {1, 2}}

\* a call: the object it is made on and its arguments
PlacementsCalls ==
  [g : {Placements(cells, changed, onChange) :
          cells \in [Locs1x2 -> CellChoices],
          changed \in BOOLEAN, onChange \in BOOLEAN},
   location : Locs1x2,
   locations : {<<<<0, 0>>, <<0, 1>>>>, <<<<0, 1>>, <<0, 0>>>>, <<<<0, 1>>>>},
   symbols : SUBSET {1, 2}]

\* the outcome of the call op
Outcome(op, o) ==
  [op |-> op, g |-> o.g, ret |-> o.ret, hooks |-> o.hooks, raised |-> o.raised]

PlacementsInit ==
  /\ input \in PlacementsCalls
  /\ stack = <<>>
  /\ ev = NoEvent

isSolvedCalled ==
  /\ ev = NoEvent
  /\ ev' = Outcome("isSolved", Called(input.g, isSolvedGrid(input.g.cells), <<>>))
  /\ UNCHANGED <<stack, input>>

isUnsolvableCalled ==
  /\ ev = NoEvent
  /\ ev' = Outcome("isUnsolvable",
                   Called(input.g, isUnsolvableGrid(input.g.cells), <<>>))
  /\ UNCHANGED <<stack, input>>

setCellCalled ==
  /\ ev = NoEvent
  /\ ev' = Outcome("setCell", setCellCall(input.g, input.location, input.symbols))
  /\ UNCHANGED <<stack, input>>

eliminateAtCalled ==
  /\ ev = NoEvent
  /\ ev' = Outcome("eliminateAt",
                   eliminateAtCall(input.g, input.location, input.symbols))
  /\ UNCHANGED <<stack, input>>

eliminateThroughoutCalled ==
  /\ ev = NoEvent
  /\ LET o == eliminateThroughout(input.g, input.locations, input.symbols)
     IN ev' = Outcome("eliminateThroughout",
                      IF o.raised THEN CallRaises(o.p) ELSE Called(o.p, o.hit, <<>>))
  /\ UNCHANGED <<stack, input>>

intersectAtCalled ==
  /\ ev = NoEvent
  /\ ev' = Outcome("intersectAt",
                   intersectAtCall(input.g, input.location, input.symbols))
  /\ UNCHANGED <<stack, input>>

intersectThroughoutCalled ==
  /\ ev = NoEvent
  /\ LET o == intersectThroughout(input.g, input.locations, input.symbols)
     IN ev' = Outcome("intersectThroughout", Called(o.p, o.hit, <<>>))
  /\ UNCHANGED <<stack, input>>

PlacementsNext ==
  \/ isSolvedCalled
  \/ isUnsolvableCalled
  \/ setCellCalled
  \/ eliminateAtCalled
  \/ eliminateThroughoutCalled
  \/ intersectAtCalled
  \/ intersectThroughoutCalled

PlacementsSpec == PlacementsInit /\ [][PlacementsNext]_vars


\* the cells of the call's grid that are other after the call than before
ChangedCells == {l \in DOMAIN input.g.cells : ev.g.cells[l] /= input.g.cells[l]}

\* C11: isSolved is true iff every cell holds exactly one symbol and that
\* symbol is not '*'; isUnsolvable is true iff some cell is empty; the two
\* are never true together, and a grid with an uninitialized cell is not
\* solved.
C11_SolvedAndUnsolvable ==
  /\ ev.op = "isSolved" =>
       /\ ~ev.raised /\ ev.g = input.g
       /\ ev.ret <=> \A l \in DOMAIN input.g.cells :
                       \E s \in input.g.cells[l] :
                         input.g.cells[l] = {s} /\ s /= Star
       /\ ev.ret => ~isUnsolvableGrid(input.g.cells)
       /\ (\E l \in DOMAIN input.g.cells : input.g.cells[l] = {Star}) => ~ev.ret
  /\ ev.op = "isUnsolvable" =>
       /\ ~ev.raised /\ ev.g = input.g
       /\ ev.ret <=> \E l \in DOMAIN input.g.cells : input.g.cells[l] = {}
       /\ ev.ret => ~isSolvedGrid(input.g.cells)

\* isUnsolvable was asked of a grid with an uninitialized cell and an empty one
C11_UninitializedAndEmpty ==
  /\ ev.op = "isUnsolvable" /\ ev.ret
  /\ \E l \in DOMAIN input.g.cells : input.g.cells[l] = {Star}

\* C11 as stated: a grid with an uninitialized cell is neither solved nor
\* unsolvable.
C11_UninitializedIsNeither ==
  (/\ ev.op \in {"isSolved", "isUnsolvable"}
   /\ \E l \in DOMAIN input.g.cells : input.g.cells[l] = {Star})
  => ~ev.ret

\* C12: setCell with a set other than the cell's calls onChange (when
\* installed) with (grid, location, old, new) while the cell still holds the
\* old set, then the cell holds the new set, the changed flag is set and true
\* is returned; with the set the cell holds, no hook is called, the cell and
\* the flag stay and false is returned.  No other cell is modified.
C12_SetCell ==
  ev.op = "setCell" =>
    LET old == input.g.cells[input.location]
        new == input.symbols
    IN /\ ~ev.raised
       /\ ChangedCells \subseteq {input.location}
       /\ ev.g.onChange = input.g.onChange
       /\ new /= old =>
            /\ ev.hooks = IF input.g.onChange
                          THEN <<[cells |-> input.g.cells,
                                  location |-> input.location,
                                  old |-> old, new |-> new]>>
                          ELSE <<>>
            /\ ev.g.cells[input.location] = new
            /\ ev.g.changed
            /\ ev.ret = TRUE
       /\ new = old =>
            /\ ev.hooks = <<>>
            /\ ev.g = input.g
            /\ ev.ret = FALSE

\* setCell changed a cell of a grid whose flag was not set, and called the hook
C12_HookCalled ==
  /\ ev.op = "setCell" /\ ev.hooks /= <<>>
  /\ ~input.g.changed /\ ev.g.changed

\* the place of the first location of the call that holds {'*'}, or one past
\* the last location
FirstStar ==
  Min({k \in DOMAIN input.locations : input.g.cells[input.locations[k]] = {Star}}
      \cup {Len(input.locations) + 1})

\* C13: eliminateAt on an initialized cell sets it to its candidates minus
\* bad and returns true iff that changed it; on {'*'} it raises and leaves
\* the cell and the changed flag as they were.  eliminateThroughout returns
\* the locations whose cells changed, in the order given; when it raises,
\* the cells before the one it raised at stay changed.
C13_Eliminate ==
  /\ ev.op = "eliminateAt" =>
       LET old == input.g.cells[input.location]
       IN IF old = {Star}
          THEN ev.raised /\ ev.g = input.g
          ELSE /\ ~ev.raised
               /\ ev.g.cells[input.location] = old \ input.symbols
               /\ ChangedCells \subseteq {input.location}
               /\ ev.ret <=> ev.g.cells[input.location] /= old
               /\ ev.g.changed <=> (input.g.changed \/ ev.ret)
  /\ ev.op = "eliminateThroughout" =>
       /\ ev.raised <=> FirstStar <= Len(input.locations)
       /\ \A k \in DOMAIN input.locations :
            ev.g.cells[input.locations[k]] =
              IF k < FirstStar
              THEN input.g.cells[input.locations[k]] \ input.symbols
              ELSE input.g.cells[input.locations[k]]
       /\ ChangedCells \subseteq Range(input.locations)
       /\ ~ev.raised => ev.ret = SeqFilterIn(input.locations, ChangedCells)

\* eliminateThroughout raised after it had changed a cell
C13_RaisedPartWay ==
  ev.op = "eliminateThroughout" /\ ev.raised /\ ChangedCells /= {}

\* C14: intersectAt sets an initialized cell to the intersection of its
\* candidates with allowed and a cell that is {'*'} to allowed, and returns
\* true iff the cell changed; intersectThroughout returns the locations whose
\* cells changed, in the order given.
C14_Intersect ==
  /\ ev.op = "intersectAt" =>
       LET old == input.g.cells[input.location]
       IN /\ ~ev.raised
          /\ ev.g.cells[input.location] =
               IF old = {Star} THEN input.symbols ELSE old \cap input.symbols
          /\ ChangedCells \subseteq {input.location}
          /\ ev.ret <=> ev.g.cells[input.location] /= old
          /\ ev.g.changed <=> (input.g.changed \/ ev.ret)
  /\ ev.op = "intersectThroughout" =>
       /\ ~ev.raised
       /\ \A k \in DOMAIN input.locations :
            LET old == input.g.cells[input.locations[k]]
            IN ev.g.cells[input.locations[k]] =
                 IF old = {Star} THEN input.symbols ELSE old \cap input.symbols
       /\ ChangedCells \subseteq Range(input.locations)
       /\ ev.ret = SeqFilterIn(input.locations, ChangedCells)

\* intersectAt gave an uninitialized cell its first candidates
C14_FirstInitialization ==
  /\ ev.op = "intersectAt" /\ ev.ret
  /\ input.g.cells[input.location] = {Star}
  /\ ev.g.cells[input.location] = input.symbols


\* the lists of a sequence of lists, one after the other
RECURSIVE Flatten(_)
Flatten(lists) ==
  IF lists = <<>> THEN <<>> ELSE Head(lists) \o Flatten(Tail(lists))

\* C15: a pass applies every constraint of the list it found once, in the
\* order of the list, each to the grid the ones before it left; the list
\* after the pass is the lists the apply calls returned, one after the other
\* in the order of the calls.
C15_PassConcatenates ==
  [][/\ \A k \in DOMAIN stack' :
          LET g == stack'[k]
          IN /\ g.pc = "pass" =>
                  /\ Len(g.returned) = g.i - 1
                  /\ Len(g.p.constraints) = Len(g.start.constraints)
                  /\ \A j \in g.i..Len(g.p.constraints) :
                       g.p.constraints[j] = g.start.constraints[j]
             /\ g.pc = "loop" =>
                  /\ Len(g.returned) = Len(g.start.constraints)
                  /\ g.p.constraints = Flatten(g.returned)
     /\ (ev'.op \in {"apply", "technique"} /\ stack /= <<>>) =>
          /\ ev'.before.cells = Top.p.cells
          /\ Len(stack') = Len(stack)
          /\ stack'[Len(stack')].i \in {Top.i, Top.i + 1}]_vars

\* a pass has ended in which one constraint returned [] and another returned
\* two constraints or more, after a constraint before it had changed the grid
C15_DroppedAndSplit ==
  /\ stack /= <<>> /\ Top.pc = "loop" /\ Top.touched
  /\ \E j, k \in DOMAIN Top.returned :
       /\ Top.returned[j] = <<>>
       /\ Len(Top.returned[k]) >= 2
       /\ j < k


\* ------------------------------------------------------ calls on a Puzzle

\* A Puzzle with the two attributes the solve leaves alone: dimensions (0:
\* None) and the cells of the initial Placements (NoCells: None).
Described(p, dimensions, initial) ==
  [size |-> p.size, symbols |-> p.symbols, hasInitial |-> p.hasInitial,
   hasSolution |-> p.hasSolution, cells |-> p.cells, changed |-> p.changed,
   constraints |-> p.constraints, stats |-> p.stats,
   dimensions |-> dimensions, initial |-> initial]

\* setDimensions: [p, raised]
setDimensions(p, dimensions) ==
  IF dimensions /= 0
  THEN IF p.dimensions /= 0
       THEN [p |-> p, raised |-> p.dimensions /= dimensions]
       ELSE [p |-> [p EXCEPT !.dimensions = dimensions], raised |-> FALSE]
  ELSE [p |-> p, raised |-> FALSE]

\* setSize: [p, raised]
setSize(p, size) ==
  IF size /= <<>>
  THEN IF p.size /= <<>>
       THEN [p |-> p, raised |-> p.size /= size]
       ELSE LET d == setDimensions(p, Len(size))
            IN IF d.raised THEN d
               ELSE [p |-> [d.p EXCEPT !.size = size], raised |-> FALSE]
  ELSE [p |-> p, raised |-> FALSE]

\* Placements.size(): the number of rows and the length of the first row
sizeOfCells(cells) ==
  <<Cardinality({l[1] : l \in DOMAIN cells}),
    Cardinality({l[2] : l \in {m \in DOMAIN cells : m[1] = 0}})>>

\* setInitial: two fresh Placements, then setSize of their size, then
\* expandStars.  [p, raised]
setInitial(p, initial) ==
  IF initial /= NoCells
  THEN LET q == [p EXCEPT !.hasInitial = TRUE, !.initial = initial,
                          !.hasSolution = TRUE, !.cells = initial,
                          !.changed = FALSE]
           s == setSize(q, sizeOfCells(initial))
       IN IF s.raised THEN s ELSE expandStars(s.p)
  ELSE [p |-> p, raised |-> FALSE]

Locs2x1 == {<<0, 0>>, <<1, 0>>}

\* the initial grids the calls are made with
Initials ==
  [Locs1x2 -> {{Star}, {1}}] \cup {[l \in Locs2x1 |-> {Star}]}

\* the constraints of the puzzles the calls are made on: one of each class,
\* those with a region over the two cells of region
OneOfEach(region) ==
  <<SymbolsNumericDigits(2), SymbolsNumericDigits(3), SymbolsNumericByDiameter,
    RegionIsCompletePermutation(region),
    EachDimensionIsCompletePermutation, AllCellsMustHaveMathOp,
    RegionSymbolsConstraint(region, {1, 2}),
    RegionPermutesSymbols(region, {1, 2}),
    RegionSymbolLists(region, <<<<1, 2>>, <<2, 1>>>>),
    SumIs(region, 3), DifferenceIs(region, 1),
    ProductIs(region, 2), QuotientIs(region, 2)>>

\* the puzzles the calls are made on: nothing known yet, the dimensions
\* only, the size too, or an initial grid and with it the size
DescribedPuzzles ==
  {Described(Puzzle(c.size, symbols, c.initial /= NoCells, c.initial /= NoCells,
                    c.initial, FALSE,
                    OneOfEach(IF c.size = <<2, 1>>
                              THEN <<<<0, 0>>, <<1, 0>>>>
                              ELSE <<<<0, 0>>, <<0, 1>>>>),
                    NoStats),
             c.dimensions, c.initial) :
     symbols \in {{}, 1..2, 1..3},
     c \in {[dimensions |-> 0, size |-> <<>>, initial |-> NoCells],
            [dimensions |-> 2, size |-> <<>>, initial |-> NoCells],
            [dimensions |-> 3, size |-> <<>>, initial |-> NoCells]}
           \cup {[dimensions |-> 2, size |-> z, initial |-> NoCells] :
                   z \in {<<1, 2>>, <<2, 1>>, <<2, 2>>}}
           \cup {[dimensions |-> 2, size |-> sizeOfCells(g), initial |-> g] :
                   g \in Initials}}

\* the outcome of the call op with the argument arg
PuzzleOutcome(op, arg, p, ret, same, raised) ==
  [op |-> op, arg |-> arg, p |-> p, ret |-> ret, same |-> same, raised |-> raised]

PuzzleInit ==
  /\ input \in DescribedPuzzles
  /\ stack = <<>>
  /\ ev = NoEvent

setDimensionsCalled ==
  /\ ev = NoEvent
  /\ \E dimensions \in {0, 2, 3} :
       LET o == setDimensions(input, dimensions)
       IN ev' = PuzzleOutcome("setDimensions", dimensions, o.p, <<>>, FALSE, o.raised)
  /\ UNCHANGED <<stack, input>>

setSizeCalled ==
  /\ ev = NoEvent
  /\ \E size \in {<<>>, <<1, 2>>, <<2, 1>>, <<1, 2, 1>>} :
       LET o == setSize(input, size)
       IN ev' = PuzzleOutcome("setSize", size, o.p, <<>>, FALSE, o.raised)
  /\ UNCHANGED <<stack, input>>

setInitialCalled ==
  /\ ev = NoEvent
  /\ \E initial \in Initials \cup {NoCells} :
       LET o == setInitial(input, initial)
       IN ev' = PuzzleOutcome("setInitial", initial, o.p, <<>>, FALSE, o.raised)
  /\ UNCHANGED <<stack, input>>

applyCalled ==
  /\ ev = NoEvent
  /\ \E i \in DOMAIN input.constraints :
       \E o \in apply(input, i) :
         ev' = PuzzleOutcome("apply", i, o.p, o.ret, o.same, o.raised)
  /\ UNCHANGED <<stack, input>>

PuzzleNext ==
  \/ setDimensionsCalled
  \/ setSizeCalled
  \/ setInitialCalled
  \/ applyCalled

PuzzleSpec == PuzzleInit /\ [][PuzzleNext]_vars


\* the constraint of the call cannot act on the puzzle yet: its techniques
\* need the solution grid and the alphabet, RegionIsCompletePermutation the
\* alphabet, the three shorthands that read the size the size
Premature(p, c) ==
  \/ techniques(c) /= <<>> /\ (~p.hasSolution \/ p.symbols = {})
  \/ c.kind = "RegionIsCompletePermutation" /\ p.symbols = {}
  \/ /\ c.kind \in {"SymbolsNumericByDiameter",
                    "EachDimensionIsCompletePermutation",
                    "AllCellsMustHaveMathOp"}
     /\ p.size = <<>>

\* C16: a constraint applied before what it needs is known returns exactly
\* [itself], raises nothing and leaves the grid, the alphabet, the size and
\* the constraint list as they were.
C16_DeferredReturnsItself ==
  (ev.op = "apply" /\ Premature(input, input.constraints[ev.arg])) =>
    /\ ~ev.raised
    /\ ev.same
    /\ ev.ret = <<input.constraints[ev.arg]>>
    /\ ev.p = input

\* a permutation was applied to a puzzle that has its grid but no alphabet
C16_GridWithoutAlphabet ==
  /\ ev.op = "apply"
  /\ input.constraints[ev.arg].kind \in
       {"RegionPermutesSymbols", "RegionIsCompletePermutation"}
  /\ input.hasSolution /\ input.symbols = {}
  /\ ev.same

\* C19: size, dimensions, alphabet and initial grid are each supplied once:
\* the first value is taken, the same value again is accepted, and another
\* value raises and leaves the earlier one in place.
C19_SuppliedOnce ==
  /\ (ev.op = "setDimensions" /\ ev.arg /= 0) =>
       IF input.dimensions = 0 THEN ~ev.raised /\ ev.p.dimensions = ev.arg
       ELSE /\ ev.p = input
            /\ ev.raised <=> input.dimensions /= ev.arg
  /\ (ev.op = "setSize" /\ ev.arg /= <<>>) =>
       IF input.size = <<>> /\ input.dimensions \in {0, Len(ev.arg)}
       THEN ~ev.raised /\ ev.p.size = ev.arg
       ELSE /\ ev.p = input
            /\ ev.raised <=> input.size /= ev.arg
  /\ (ev.op = "apply" /\ input.constraints[ev.arg].kind = "SymbolsNumericDigits") =>
       LET symbols == 1..input.constraints[ev.arg].max
       IN IF input.symbols = {} THEN ~ev.raised /\ ev.p.symbols = symbols
          ELSE /\ ev.p.symbols = input.symbols
               /\ ev.raised <=> input.symbols /= symbols
  /\ (ev.op = "setInitial" /\ ev.arg /= NoCells) =>
       IF ~input.hasInitial /\ input.size \in {<<>>, sizeOfCells(ev.arg)}
       THEN ~ev.raised /\ ev.p.initial = ev.arg
       ELSE /\ ev.p.initial = input.initial
            /\ ev.raised <=> input.initial /= ev.arg


\* C17: every RegionPermutesSymbols constraint of the list of a puzzle, and
\* of the list a pass is building, has as many cells as distinct symbols.
C17_PermutationsBalanced ==
  \A k \in DOMAIN stack :
    \A list \in {stack[k].p.constraints, stack[k].newConstraints} :
      \A j \in DOMAIN list :
        list[j].kind = "RegionPermutesSymbols" =>
          Len(list[j].region) = Cardinality(list[j].symbols)

\* C18: stats['passes'] of an object never decreases, and a copy starts from
\* the count of the object it was copied from.  Whenever a branch of
\* searchSolutionSpace has returned, and when searchSolutionSpace itself
\* returns, the passes and the count of every technique of the parent are
\* those it had when the search was entered plus all the passes run and
\* techniques logged in the branches explored so far, the failed ones
\* included.
C18_StatsAccumulate ==
  [][/\ \A k \in DOMAIN stack \cap DOMAIN stack' :
         stack'[k].p.stats.passes >= stack[k].p.stats.passes
     /\ (Len(stack') > Len(stack) /\ stack /= <<>>) =>
         stack'[Len(stack')].p.stats.passes >= Top.p.stats.passes
     /\ ev'.op \in {"return", "exhausted"} =>
         LET g == stack'[Len(stack')]
         IN Work(NoStats, g.p.stats) = PlusWork(Work(NoStats, g.entry), g.branches)
    ]_vars

\* a search that returns False after two branches failed, passes run in both
C18_TwoFailedBranches ==
  /\ stack /= <<>>
  /\ ev.op = "exhausted"
  /\ Cardinality(Top.tried) >= 2
  /\ Top.branches.passes >= 2
  /\ Top.branches.techniques["guess"] >= 2

\* C20: a cell that a step of a pass left empty is still empty when the pass
\* ends: no constraint applied later in the pass refills it, so isUnsolvable
\* is true when solve next tests isFinished.
C20_EmptyStaysEmpty ==
  \A k \in DOMAIN stack :
    stack[k].pc = "loop" =>
      /\ \A l \in stack[k].emptied : stack[k].p.cells[l] = {}
      /\ stack[k].emptied /= {} => isUnsolvable(stack[k].p)

\* ------------------------------------------------ the techniques, call by call

\* the step is the call of the technique called name on the constraint the
\* pass is at; Called_c is that constraint, Called_p the puzzle it found
TechniqueCalled(name) ==
  /\ stack /= <<>> /\ Len(stack') = Len(stack)
  /\ Top.pc = "pass"
  /\ ev'.op \in {"technique", "raise"}
  /\ ev'.name = name
  /\ Top.i <= Len(Top.p.constraints)
  /\ techniques(Top.p.constraints[Top.i]) /= <<>>

\* C21: a technique call that returns a list or changes a cell has called
\* logTechnique with the name of the technique: the count of that name in
\* stats['techniques'] went up; so has the guess of searchSolutionSpace.
C21_FiringIsLogged ==
  [][/\ \A name \in TechniqueNames :
         (/\ TechniqueCalled(name)
          /\ ev'.op = "technique"
          /\ ev'.fired \/ stack'[Len(stack')].p.cells /= Top.p.cells)
         => stack'[Len(stack')].p.stats.techniques[name] > Top.p.stats.techniques[name]
     /\ ev'.op = "guess" =>
         stack'[Len(stack')].p.stats.techniques["guess"]
           = Top.p.stats.techniques["guess"] + 1
    ]_vars

\* the order in which the techniques of a class are to be called
DeclaredOrder(kind) ==
  IF kind = "RegionPermutesSymbols"
  THEN <<"empty", "filterFromPuzzle", "solo", "filterSolution",
         "partition", "misfit", "borrow", "intersection">>
  ELSE <<"empty", "singleValue", "removeKnown", "twoCellOperator", "regionOperator">>
       \o (IF kind = "ProductIs" THEN <<"primeFactors">> ELSE <<>>)

\* C22: with a grid and an alphabet, Constraint.apply of a
\* RegionPermutesSymbols or a MathOp calls the techniques in the declared
\* order; the first list a technique returns is what apply returns, and no
\* later technique is called; when every technique returned null apply
\* returns the constraint alone.
C22_TechniquesInOrder ==
  [][\A name \in TechniqueNames :
       (/\ TechniqueCalled(name)
        /\ ev'.op = "technique"
        /\ Top.p.constraints[Top.i].kind \in {"RegionPermutesSymbols"} \cup MathOpKinds)
       => LET c == Top.p.constraints[Top.i]
              order == DeclaredOrder(c.kind)
              g == stack'[Len(stack')]
          IN /\ Top.p.hasSolution /\ Top.p.symbols /= {}
             /\ Top.t <= Len(order) /\ name = order[Top.t]
             /\ Len(Top.returned) = Top.i - 1
             /\ ev'.fired =>
                  /\ g.i = Top.i + 1 /\ g.t = 1
                  /\ g.returned = Append(Top.returned, ev'.ret)
             /\ (~ev'.fired /\ Top.t < Len(order)) =>
                  /\ g.i = Top.i /\ g.t = Top.t + 1
                  /\ g.returned = Top.returned
             /\ (~ev'.fired /\ Top.t = Len(order)) =>
                  /\ g.i = Top.i + 1 /\ g.t = 1
                  /\ g.returned = Append(Top.returned, <<c>>)
    ]_vars

\* a permutation was kept after all its eight techniques returned null, and
\* a cage was replaced by what removeKnown returned
C22_KeptAndReplaced ==
  /\ stack /= <<>>
  /\ Top.pc = "pass"
  /\ \E k \in 1..Len(Top.returned) :
       /\ Top.p.constraints[k].kind = "RegionPermutesSymbols"
       /\ Top.returned[k] = <<Top.p.constraints[k]>>
  /\ ev.op = "technique" /\ ev.name = "removeKnown" /\ ev.fired

\* C23: filterFromPuzzle of a RegionPermutesSymbols or RegionSymbolsConstraint
\* holding a symbol outside the alphabet returns one constraint over the
\* same region with the symbols that are in the alphabet; when every symbol
\* is in the alphabet it returns null and changes nothing.
C23_FilterFromPuzzle ==
  [][(/\ TechniqueCalled("filterFromPuzzle")
      /\ Top.p.constraints[Top.i].kind
           \in {"RegionPermutesSymbols", "RegionSymbolsConstraint"})
     => LET c == Top.p.constraints[Top.i]
            g == stack'[Len(stack')]
        IN /\ ev'.op = "technique"
           /\ g.p.cells = Top.p.cells
           /\ IF c.symbols \subseteq Top.p.symbols
              THEN ~ev'.fired /\ g.p.constraints = Top.p.constraints
              ELSE /\ ev'.fired
                   /\ Len(ev'.ret) = 1
                   /\ ev'.ret[1].region = c.region
                   /\ ev'.ret[1].symbols = c.symbols \cap Top.p.symbols
    ]_vars

\* the places in the region of the cells that hold exactly the set S
Holding(p, region, S) == {k \in DOMAIN region : p.cells[region[k]] = S}

\* the places of the cells in a group to split off: k cells holding the same
\* k candidates, k >= 1 smaller than the number of symbols
Grouped(p, c) ==
  {k \in DOMAIN c.region :
     LET S == p.cells[c.region[k]]
     IN /\ S /= {}
        /\ Cardinality(S) < Cardinality(c.symbols)
        /\ Cardinality(Holding(p, c.region, S)) = Cardinality(S)}

\* C24: partition fires iff the region has a group of k cells holding the
\* same k candidates, k smaller than the number of symbols; it returns a
\* permutation of those symbols over those cells, then one of the other
\* symbols over the other cells, and removes the k symbols from the other
\* cells and from no other; of several groups the one met first in region
\* order is used.
C24_Partition ==
  [][TechniqueCalled("partition")
     => LET c == Top.p.constraints[Top.i]
            p == Top.p
            g == stack'[Len(stack')]
        IN /\ ev'.op = "technique"
           /\ ev'.fired <=> Grouped(p, c) /= {}
           /\ ~ev'.fired => g.p.cells = p.cells
           /\ ev'.fired =>
                LET S == p.cells[c.region[Min(Grouped(p, c))]]
                    inside == {c.region[k] : k \in Holding(p, c.region, S)}
                IN /\ ev'.ret =
                        <<RegionPermutesSymbols(SeqFilterIn(c.region, inside), S),
                          RegionPermutesSymbols(SeqFilterNotIn(c.region, inside),
                                                c.symbols \ S)>>
                   /\ \A l \in DOMAIN p.cells :
                        g.p.cells[l] =
                          IF l \in Range(c.region) \ inside THEN p.cells[l] \ S
                          ELSE p.cells[l]
    ]_vars

\* the places in the region of the cells that hold the symbol s
Having(p, region, s) == {k \in DOMAIN region : s \in p.cells[region[k]]}

\* the symbols that are a candidate in exactly one cell of the region
OnlyOnce(p, region) ==
  {s \in UNION {p.cells[region[k]] : k \in DOMAIN region} :
     Cardinality(Having(p, region, s)) = 1}

LiveAt(f) ==
  {j \in DOMAIN f.p.constraints :
     \/ j > f.i
     \/ /\ j < f.i
        /\ \E n \in DOMAIN f.returned[j] : f.returned[j][n] = f.p.constraints[j]}

\* the live permutations whose region is a proper subset of the region of c
LiveLenders(f, c) ==
  {j \in LiveAt(f) :
     /\ f.p.constraints[j].kind = "RegionPermutesSymbols"
     /\ Range(f.p.constraints[j].region) \subseteq Range(c.region)
     /\ Range(f.p.constraints[j].region) /= Range(c.region)}

\* C26: borrow uses only a RegionPermutesSymbols that is live when it runs,
\* never one that retired earlier in the pass: with such a constraint over a
\* proper subset of the region it removes that constraint's symbols from the
\* cells of the region outside the subset and returns one permutation over
\* the other cells with the other symbols; otherwise it does nothing.
C26_BorrowFromLive ==
  [][TechniqueCalled("borrow")
     => LET c == Top.p.constraints[Top.i]
            p == Top.p
            g == stack'[Len(stack')]
        IN /\ ev'.op = "technique"
           /\ ev'.fired <=> LiveLenders(Top, c) /= {}
           /\ ~ev'.fired => g.p.cells = p.cells
           /\ ev'.fired =>
                \E j \in LiveLenders(Top, c) :
                  LET other == p.constraints[j]
                      outside == Range(c.region) \ Range(other.region)
                  IN /\ ev'.ret =
                          <<RegionPermutesSymbols(
                              SeqFilterIn(c.region, outside),
                              c.symbols \ other.symbols)>>
                     /\ \A l \in DOMAIN p.cells :
                          g.p.cells[l] =
                            IF l \in outside THEN p.cells[l] \ other.symbols
                            ELSE p.cells[l]
    ]_vars

\* C27: when intersection fires it has removed at least one candidate from
\* a cell of the region, and changed no cell but by removing candidates;
\* when it can remove nothing it returns null and changes nothing.
C27_IntersectionProgresses ==
  [][TechniqueCalled("intersection")
     => LET c == Top.p.constraints[Top.i]
            p == Top.p
            g == stack'[Len(stack')]
        IN /\ ev'.op = "technique"
           /\ ev'.fired =>
                /\ \E l \in Range(c.region) :
                     g.p.cells[l] \subseteq p.cells[l] /\ g.p.cells[l] /= p.cells[l]
                /\ ev'.ret = <<c>>
           /\ ~ev'.fired => g.p.cells = p.cells
    ]_vars

\* the symbols q of the alphabet that the cage of this kind and target
\* allows beside the value v: op(q, v) = target, or op(v, q) = target
Partners(kind, target, v, symbols) ==
  {q \in symbols :
     CASE kind = "SumIs" -> q + v = target
       [] kind = "ProductIs" -> q * v = target
       [] kind = "DifferenceIs" -> q - v = target \/ v - q = target
       [] kind = "QuotientIs" -> q = target * v \/ q * target = v}

\* the places of the cells of the cage determined to a single value
KnownPlaces(p, c) ==
  {k \in DOMAIN c.region :
     Cardinality(p.cells[c.region[k]]) = 1 /\ p.cells[c.region[k]] /= {Star}}

\* ret is what removeKnown is to return for the known cell at place k
RemovedKnown(p, c, k, ret) ==
  LET v == CHOOSE x \in p.cells[c.region[k]] : TRUE
      left == Partners(c.kind, c.target, v, p.symbols)
      rest == SeqFilterNotIn(c.region, {c.region[k]})
  IN IF Cardinality(left) = 1
     THEN /\ Len(ret) = 1
          /\ ret[1].kind = c.kind
          /\ ret[1].region = rest
          /\ {ret[1].target} = left
     ELSE /\ Len(c.region) = 2
          /\ ret = <<RegionSymbolsConstraint(rest, left)>>

\* C28: removeKnown fires for a cell of the cage determined to one value
\* when exactly one inverse is an integer of the alphabet (the cage is
\* replaced by one of the same operator over the other cells with that
\* value as target) or else when the cage has two cells (it is replaced by
\* a RegionSymbolsConstraint over the other cell with the inverses left);
\* otherwise it does not fire; it changes no cell.
C28_RemoveKnown ==
  [][(/\ TechniqueCalled("removeKnown")
      /\ Top.p.constraints[Top.i].kind \in MathOpKinds)
     => LET c == Top.p.constraints[Top.i]
            p == Top.p
            g == stack'[Len(stack')]
        IN /\ ev'.op = "technique"
           /\ g.p.cells = p.cells
           /\ ev'.fired <=>
                \E k \in KnownPlaces(p, c) :
                   \/ Cardinality(Partners(c.kind, c.target,
                                           CHOOSE x \in p.cells[c.region[k]] : TRUE,
                                           p.symbols)) = 1
                   \/ Len(c.region) = 2
           /\ ev'.fired =>
                \E k \in KnownPlaces(p, c) : RemovedKnown(p, c, k, ev'.ret)
    ]_vars

\* removeKnown replaced a cage of three cells by one of two, and a cage of
\* two cells by a RegionSymbolsConstraint with two candidates
C28_CageShrunk ==
  /\ stack /= <<>>
  /\ ev.op = "technique" /\ ev.name = "removeKnown" /\ ev.fired
  /\ Len(ev.ret) = 1
  /\ ev.ret[1].kind \in MathOpKinds
  /\ Len(ev.ret[1].region) = 2

C28_TwoCandidatesLeft ==
  /\ stack /= <<>>
  /\ ev.op = "technique" /\ ev.name = "removeKnown" /\ ev.fired
  /\ ev.ret[1].kind = "RegionSymbolsConstraint"
  /\ Cardinality(ev.ret[1].symbols) = 2

\* x and y satisfy the cage: op(x, y) = target or, for the operators that
\* do not commute, op(y, x) = target
Satisfies(kind, target, x, y) ==
  CASE kind = "SumIs" -> x + y = target
    [] kind = "ProductIs" -> x * y = target
    [] kind = "DifferenceIs" -> x - y = target \/ y - x = target
    [] kind = "QuotientIs" -> x = target * y \/ y = target * x

\* the candidates of the cell `here` that have a partner in the cell `there`
Supported(p, c, here, there) ==
  {x \in p.cells[here] :
     \E y \in p.cells[there] : Satisfies(c.kind, c.target, x, y)}

\* C29: twoCellOperator on a cage of two initialized cells removes exactly
\* the candidates without a partner in the other cell; afterwards every
\* candidate left has a partner left in the other cell; the cells outside
\* the cage are as before and the cage is not replaced.
C29_TwoCellOperator ==
  [][(/\ TechniqueCalled("twoCellOperator")
      /\ Top.p.constraints[Top.i].kind \in MathOpKinds
      /\ Len(Top.p.constraints[Top.i].region) = 2
      /\ \A k \in 1..2 :
            Top.p.cells[Top.p.constraints[Top.i].region[k]] /= {Star})
     => LET c == Top.p.constraints[Top.i]
            p == Top.p
            q == stack'[Len(stack')].p
            a == c.region[1]
            b == c.region[2]
        IN /\ ev'.op = "technique"
           /\ ~ev'.fired
           /\ q.cells[a] = Supported(p, c, a, b)
           /\ q.cells[b] = Supported(p, c, b, a)
           /\ q.cells[a] = Supported(q, c, a, b)
           /\ q.cells[b] = Supported(q, c, b, a)
           /\ \A l \in DOMAIN p.cells : l \notin {a, b} => q.cells[l] = p.cells[l]
           /\ stack'[Len(stack')].i = Top.i
    ]_vars

\* twoCellOperator removed candidates from both cells of a cage whose
\* operator does not commute, and left candidates in both
C29_BothCellsNarrowed ==
  /\ stack /= <<>>
  /\ ev.op = "technique" /\ ev.name = "twoCellOperator"
  /\ Top.i <= Len(Top.p.constraints)
  /\ LET c == Top.p.constraints[Top.i]
     IN /\ c.kind \in {"DifferenceIs", "QuotientIs"}
        /\ Len(c.region) = 2
        /\ \A k \in 1..2 :
              /\ Top.p.cells[c.region[k]] /= {}
              /\ Top.p.cells[c.region[k]] /= ev.before.cells[c.region[k]]

\* the sum or the product of the values f gives to the places k..Len(f)
RECURSIVE Combined(_, _, _)
Combined(kind, f, k) ==
  IF k > Len(f) THEN (IF kind = "SumIs" THEN 0 ELSE 1)
  ELSE IF kind = "SumIs" THEN f[k] + Combined(kind, f, k + 1)
       ELSE f[k] * Combined(kind, f, k + 1)

\* the choices of one candidate from each cell of the cage that reach the
\* target
Reaching(p, c) ==
  {f \in [DOMAIN c.region ->
             UNION {p.cells[c.region[k]] : k \in DOMAIN c.region}] :
     /\ \A k \in DOMAIN c.region : f[k] \in p.cells[c.region[k]]
     /\ Combined(c.kind, f, 1) = c.target}

\* C30: regionOperator on a SumIs or ProductIs cage whose cells are all
\* initialized leaves in each cell of the cage exactly the candidates that
\* take part in a choice of one candidate per cell reaching the target, and
\* leaves the cells outside the cage as they were.
C30_RegionOperator ==
  [][(/\ TechniqueCalled("regionOperator")
      /\ Top.p.constraints[Top.i].kind \in {"SumIs", "ProductIs"}
      /\ \A k \in DOMAIN Top.p.constraints[Top.i].region :
            Top.p.cells[Top.p.constraints[Top.i].region[k]] /= {Star})
     => LET c == Top.p.constraints[Top.i]
            p == Top.p
            q == stack'[Len(stack')].p
        IN /\ ev'.op = "technique"
           /\ \A k \in DOMAIN c.region :
                q.cells[c.region[k]] = {f[k] : f \in Reaching(p, c)}
           /\ \A l \in DOMAIN p.cells :
                (\A k \in DOMAIN c.region : c.region[k] /= l)
                => q.cells[l] = p.cells[l]
    ]_vars

\* regionOperator narrowed a cell of a cage of three cells and left it a
\* candidate
C30_ThreeCellsNarrowed ==
  /\ stack /= <<>>
  /\ ev.op = "technique" /\ ev.name = "regionOperator"
  /\ Top.i <= Len(Top.p.constraints)
  /\ LET c == Top.p.constraints[Top.i]
     IN /\ c.kind \in {"SumIs", "ProductIs"}
        /\ Len(c.region) = 3
        /\ \E k \in 1..3 :
              /\ Top.p.cells[c.region[k]] /= {}
              /\ Top.p.cells[c.region[k]] /= ev.before.cells[c.region[k]]

\* ------------------------------------------ factorings and lists of symbols

\* the ascending lists of n symbols whose product is the target
Multisets(symbols, n, target) ==
  {s \in [1..n -> symbols \ {Star}] :
     /\ \A k \in 1..(n - 1) : s[k] <= s[k + 1]
     /\ SeqProduct(s) = target}

\* C31: primeFactors fires at most once per ProductIs constraint.  When it
\* fires the flag was not set, and it returns the constraint itself with the
\* flag set and a RegionSymbolLists over the same region whose lists are
\* exactly the multisets of |region| alphabet symbols with the target as
\* product, each once; a constraint with the flag set gets null and nothing
\* of the puzzle changes.
C31_PrimeFactorsOnce ==
  [][(/\ TechniqueCalled("primeFactors")
      /\ Top.p.constraints[Top.i].kind = "ProductIs")
     => LET c == Top.p.constraints[Top.i]
            p == Top.p
            q == stack'[Len(stack')].p
            all == Multisets(p.symbols, Len(c.region), c.target)
        IN /\ c.factored
              => /\ ev'.op = "technique"
                 /\ ~ev'.fired
                 /\ q = p
           /\ ev'.fired
              => /\ ~c.factored
                 /\ Len(ev'.ret) = 2
                 /\ ev'.ret[1] = [c EXCEPT !.factored = TRUE]
                 /\ q.constraints[Top.i] = ev'.ret[1]
                 /\ ev'.ret[2].kind = "RegionSymbolLists"
                 /\ ev'.ret[2].region = c.region
                 /\ Range(ev'.ret[2].lists) = all
                 /\ Len(ev'.ret[2].lists) = Cardinality(all)
    ]_vars

\* primeFactors was called again on a constraint it had factored into two
\* lists or more, and returned null
C31_CalledAgain ==
  /\ stack /= <<>>
  /\ ev.op = "technique" /\ ev.name = "primeFactors" /\ ~ev.fired
  /\ Top.i > 1
  /\ ev.before.constraints[Top.i - 1].kind = "ProductIs"
  /\ ev.before.constraints[Top.i - 1].factored
  /\ \E k \in DOMAIN ev.before.constraints :
       /\ ev.before.constraints[k].kind = "RegionSymbolLists"
       /\ ev.before.constraints[k].region = ev.before.constraints[Top.i - 1].region
       /\ Len(ev.before.constraints[k].lists) >= 2

\* the places of the lists that hold a symbol outside the alphabet
ForeignLists(p, c) ==
  {k \in DOMAIN c.lists : \E j \in DOMAIN c.lists[k] : c.lists[k][j] \notin p.symbols}

\* C32: on a RegionSymbolLists, filterFromPuzzle fires iff some list holds a
\* symbol outside the alphabet and then returns the constraint without one
\* such list, the others kept in their order; makePermutation fires iff
\* there is exactly one list and its symbols are pairwise distinct, and then
\* returns a RegionPermutesSymbols over the same region with the symbols of
\* that list; neither raises.
C32_SymbolLists ==
  [][(/\ stack /= <<>> /\ Len(stack') = Len(stack)
      /\ Top.pc = "pass"
      /\ Top.i <= Len(Top.p.constraints)
      /\ Top.p.constraints[Top.i].kind = "RegionSymbolLists"
      /\ ev'.op \in {"technique", "raise"}
      /\ ev'.name \in {"filterFromPuzzle", "makePermutation"})
     => LET c == Top.p.constraints[Top.i]
            p == Top.p
            foreign == ForeignLists(p, c)
            distinct == \A j, k \in DOMAIN c.lists[1] :
                           c.lists[1][j] = c.lists[1][k] => j = k
        IN /\ ev'.op = "technique"
           /\ ev'.name = "filterFromPuzzle"
              => /\ ev'.fired <=> foreign /= {}
                 /\ ev'.fired
                    => \E k \in foreign :
                         ev'.ret = <<RegionSymbolLists(c.region, RemoveAt(c.lists, k))>>
           /\ ev'.name = "makePermutation"
              => /\ ev'.fired <=> (Len(c.lists) = 1 /\ distinct)
                 /\ ev'.fired
                    => ev'.ret = <<RegionPermutesSymbols(c.region, Range(c.lists[1]))>>
    ]_vars

\* C38: every RegionSymbolLists built during a solve, by primeFactors or by
\* filterFromPuzzle after it dropped a list, has one list at least and
\* every list has as many entries as the region has cells: neither
\* technique raises.
C38_ListsConstructed ==
  [][(/\ stack /= <<>> /\ Len(stack') = Len(stack)
      /\ Top.pc = "pass"
      /\ Top.i <= Len(Top.p.constraints)
      /\ ev'.op \in {"technique", "raise"}
      /\ \/ ev'.name = "primeFactors"
         \/ /\ ev'.name = "filterFromPuzzle"
            /\ Top.p.constraints[Top.i].kind = "RegionSymbolLists")
     => /\ ev'.op = "technique"
        /\ \A k \in DOMAIN ev'.ret :
             ev'.ret[k].kind = "RegionSymbolLists"
             => /\ Len(ev'.ret[k].lists) >= 1
                /\ \A j \in DOMAIN ev'.ret[k].lists :
                     Len(ev'.ret[k].lists[j]) = Len(ev'.ret[k].region)
    ]_vars

\* ------------------------------------------------------------- the search

\* location l comes before location m when the grid is scanned row by row
ScannedBefore(l, m) == l[1] < m[1] \/ (l[1] = m[1] /\ l[2] < m[2])

\* C33: the cell guessed has the least number of candidates among the
\* cells with two candidates or more as the search found them, and is the
\* last such cell of the scan; every branch is one candidate of that cell
\* not tried before, and starts from the parent's size, alphabet,
\* constraints and grid as the search found it but for that cell, which
\* holds the guessed symbol alone, with 'guess' logged once; when the search
\* gives up every candidate was tried.
C33_GuessedCell ==
  [][(stack /= <<>> /\ Top.pc = "guessing")
     => LET f == Top
            l == f.location
            n == Cardinality(f.searched[l])
            child == stack'[Len(stack')]
        IN /\ Len(stack') = Len(stack) + 1
              => /\ n >= 2
                 /\ f.p.cells = f.searched
                 /\ \A m \in DOMAIN f.searched :
                      LET k == Cardinality(f.searched[m])
                      IN /\ k >= 2 => k >= n
                         /\ (k = n /\ m /= l) => ScannedBefore(m, l)
                 /\ \E s \in f.searched[l] \ f.tried :
                      /\ child.p.cells = [f.searched EXCEPT ![l] = {s}]
                      /\ stack'[Len(stack)].tried = f.tried \cup {s}
                 /\ child.p.constraints = f.p.constraints
                 /\ child.p.symbols = f.p.symbols
                 /\ child.p.size = f.p.size
                 /\ child.p.stats =
                      [f.p.stats EXCEPT !.techniques["guess"] = @ + 1]
           /\ (Len(stack') = Len(stack) /\ ev'.op = "exhausted")
              => f.tried = f.searched[l]
    ]_vars

\* a second candidate is being tried in a cell that was not the only one
\* with the least number of candidates
C33_SecondBranchOfTiedCell ==
  /\ stack /= <<>>
  /\ ev.op = "guess"
  /\ Len(stack) >= 2
  /\ LET f == stack[Len(stack) - 1]
     IN /\ Cardinality(f.tried) = 2
        /\ \E m \in DOMAIN f.searched :
             /\ m /= f.location
             /\ Cardinality(f.searched[m]) = Cardinality(f.searched[f.location])

\* C34: a pass that starts with the size, the grid and the alphabet known
\* first puts the whole alphabet in every cell that is {'*'} and leaves the
\* other cells, the alphabet and the constraints as they are, and only then
\* comes to the first constraint; no technique changes the alphabet
\* afterwards.
C34_StarsExpanded ==
  [][(stack /= <<>> /\ Len(stack') = Len(stack))
     => LET p == Top.p
            g == stack'[Len(stack')]
        IN /\ (/\ ev'.op = "begin"
               /\ p.size /= <<>> /\ p.hasSolution /\ p.symbols /= {})
              => /\ g.pc = "pass" /\ g.i = 1 /\ g.newConstraints = <<>>
                 /\ DOMAIN g.p.cells = DOMAIN p.cells
                 /\ \A l \in DOMAIN p.cells :
                      g.p.cells[l] = IF p.cells[l] = {Star} THEN p.symbols
                                     ELSE p.cells[l]
                 /\ g.p.symbols = p.symbols
                 /\ g.p.constraints = p.constraints
           /\ ev'.op = "technique" => g.p.symbols = p.symbols
    ]_vars

\* a pass began by expanding one cell and leaving another, and a technique
\* then narrowed the expanded cell
C34_ExpandedThenNarrowed ==
  /\ stack /= <<>>
  /\ ev.op = "technique"
  /\ Top.pc = "pass"
  /\ DOMAIN Top.start.cells = DOMAIN Top.p.cells
  /\ DOMAIN ev.before.cells = DOMAIN Top.p.cells
  /\ \E l, m \in DOMAIN Top.p.cells :
       /\ Top.start.cells[l] = {Star}
       /\ Top.start.cells[m] /= {Star}
       /\ ev.before.cells[l] = ev.before.symbols
       /\ ev.before.cells[m] = Top.start.cells[m]
       /\ Top.p.cells[l] /= ev.before.cells[l]
       /\ Top.p.symbols = ev.before.symbols
       /\ Top.p.cells[m] = Top.start.cells[m]

\* ------------------------------------------------- the shorthand constraints

\* every row of a grid of this size, then every column, each as its cells
RowsThenColumns(size) ==
  [k \in 1..(size[1] + size[2]) |->
     IF k <= size[1] THEN [j \in 1..size[2] |-> <<k - 1, j - 1>>]
     ELSE [j \in 1..size[1] |-> <<j - 1, k - size[1] - 1>>]]

Intermediate(c) ==
  c.kind \in {"EachDimensionIsCompletePermutation", "RegionsAreCompletePermutation",
              "RegionIsCompletePermutation"}

\* the apply of the constraint the pass is at, of one of the three kinds:
\* EachDimensionIsCompletePermutation gives way to one
\* RegionsAreCompletePermutation over the rows, then the columns; that one to
\* a RegionIsCompletePermutation per region, in order; and that one waits
\* for the alphabet and then, when fits holds of it and the puzzle, gives
\* way to a RegionPermutesSymbols over its region with the whole alphabet
ShorthandApplied(fits(_, _)) ==
  (/\ stack /= <<>> /\ Len(stack') = Len(stack)
   /\ Top.pc = "pass"
   /\ Top.i <= Len(Top.p.constraints)
   /\ Intermediate(Top.p.constraints[Top.i])
   /\ ev'.op \in {"apply", "raise"})
  => LET c == Top.p.constraints[Top.i]
         p == Top.p
         g == stack'[Len(stack')]
     IN /\ (c.kind = "EachDimensionIsCompletePermutation" /\ p.size /= <<>>)
           => /\ ev'.op = "apply"
              /\ Len(ev'.ret) = 1
              /\ ev'.ret[1].kind = "RegionsAreCompletePermutation"
              /\ ev'.ret[1].regions = RowsThenColumns(p.size)
        /\ c.kind = "RegionsAreCompletePermutation"
           => /\ ev'.op = "apply"
              /\ Len(ev'.ret) = Len(c.regions)
              /\ \A k \in DOMAIN c.regions :
                   /\ ev'.ret[k].kind = "RegionIsCompletePermutation"
                   /\ ev'.ret[k].region = c.regions[k]
        /\ (c.kind = "RegionIsCompletePermutation" /\ p.symbols = {})
           => ev'.op = "apply" /\ ev'.ret = <<c>>
        /\ (c.kind = "RegionIsCompletePermutation" /\ p.symbols /= {} /\ fits(p, c))
           => /\ ev'.op = "apply"
              /\ ev'.ret = <<RegionPermutesSymbols(c.region, p.symbols)>>
        /\ ev'.op = "apply"
           => /\ g.p.cells = p.cells
              /\ g.newConstraints = Top.newConstraints \o ev'.ret

\* with the alphabet set in the first pass, the third pass leaves one
\* RegionPermutesSymbols per row and then one per column, and from then on
\* none of the three kinds is live
ShorthandGone ==
  /\ (/\ Len(stack) = 1 /\ Len(stack') = 1
      /\ ev'.op = "end"
      /\ Len(input.constraints) = 2
      /\ input.constraints[2].kind = "EachDimensionIsCompletePermutation"
      /\ stack'[1].p.stats.passes = 3)
     => stack'[1].p.constraints =
          [k \in 1..(input.size[1] + input.size[2]) |->
             RegionPermutesSymbols(RowsThenColumns(input.size)[k], stack'[1].p.symbols)]
  /\ \A k \in DOMAIN stack' :
       stack'[k].p.stats.passes >= 3
       => \A j \in DOMAIN stack'[k].p.constraints :
            ~Intermediate(stack'[k].p.constraints[j])

AlphabetFits(p, c) == Cardinality(p.symbols) = Len(c.region)
AlphabetKnown(p, c) == TRUE

\* C35, with the condition it needs: EachDimensionIsCompletePermutation is
\* replaced, through RegionsAreCompletePermutation and
\* RegionIsCompletePermutation, by one RegionPermutesSymbols per row and one
\* per column, rows first, each over the cells of that row or column with
\* the whole alphabet, when the alphabet has as many symbols as the row or
\* column has cells; that takes three passes and none of the intermediate
\* constraints is live afterwards.
C35_DimensionsExpandedWhenFitting ==
  [][ShorthandApplied(AlphabetFits) /\ ShorthandGone]_vars

\* C35 as stated: for any size and alphabet.
C35_DimensionsExpanded ==
  [][ShorthandApplied(AlphabetKnown) /\ ShorthandGone]_vars

\* the third pass of a 2 x 2 puzzle is over: two rows and two columns
C35_RowsAndColumnsLive ==
  /\ Len(stack) = 1
  /\ ev.op = "end"
  /\ input.size = <<2, 2>>
  /\ Top.p.stats.passes = 3
  /\ Len(Top.p.constraints) = 4
  /\ \A k \in 1..4 : Top.p.constraints[k].kind = "RegionPermutesSymbols"
  /\ Top.p.constraints[3].region = <<<<0, 0>>, <<1, 0>>>>

\* the cages that are live while the i-th constraint is applied: those
\* still to be applied and those the applies of this pass returned
LiveMathOps(f) ==
  {f.p.constraints[j] : j \in {k \in DOMAIN f.p.constraints : k > f.i}}
  \cup UNION {Range(f.returned[j]) : j \in DOMAIN f.returned}

\* the cages of the constraint list of the puzzle, which a pass replaces
\* when it ends
ListedMathOps(f) == Range(f.p.constraints)

\* the coordinates of the grid that lie in the region of none of the cages
Bare(p, cages) ==
  {l \in (0..(p.size[1] - 1)) \X (0..(p.size[2] - 1)) :
     \A m \in cages : ~(isMathOp(m) /\ \E k \in DOMAIN m.region : m.region[k] = l)}

\* AllCellsMustHaveMathOp applied with the size known: raises iff a
\* coordinate is bare of the cages, else returns []; an existing grid stays
\* as it is and a missing one is created with the cell fresh(p) everywhere
AllCellsApplied(cages(_), fresh(_)) ==
  (/\ stack /= <<>> /\ Len(stack') = Len(stack)
   /\ Top.pc = "pass"
   /\ Top.i <= Len(Top.p.constraints)
   /\ Top.p.constraints[Top.i].kind = "AllCellsMustHaveMathOp"
   /\ Top.p.size /= <<>>
   /\ ev'.op \in {"apply", "raise"})
  => LET p == Top.p
         g == stack'[Len(stack')]
     IN /\ ev'.op = "raise" <=> Bare(p, cages(Top)) /= {}
        /\ ev'.op = "apply" => ev'.ret = <<>>
        /\ p.hasInitial => g.p.cells = p.cells
        /\ ~p.hasInitial
           => /\ g.p.hasInitial /\ g.p.hasSolution
              /\ g.p.cells = [l \in (0..(p.size[1] - 1)) \X (0..(p.size[2] - 1))
                                |-> fresh(p)]

AllStars(p) == {Star}
StarsExpanded(p) == IF p.symbols = {} THEN {Star} ELSE p.symbols

\* C36, with what the code takes for live: AllCellsMustHaveMathOp, applied
\* when the size is known, creates the initial and the solution grid of
\* that size if there is no initial grid, every cell '*' and, in the
\* solution grid, expanded to the alphabet at once when that is known; it
\* leaves an existing grid as it is; it raises iff some coordinate lies in
\* the region of no MathOp of the constraint list as the pass found it, and
\* otherwise returns [].
C36_AllCellsInTheList ==
  [][AllCellsApplied(ListedMathOps, StarsExpanded)]_vars

\* C36 as stated: the cages that count are the live ones, and the grid
\* created is all '*'.
C36_AllCellsCovered ==
  [][AllCellsApplied(LiveMathOps, AllStars)]_vars

\* AllCellsMustHaveMathOp returned [] in a pass in which a cage had given way to a cage
\* over fewer cells
C36_CoveredByReplacedCage ==
  /\ stack /= <<>>
  /\ ev.op = "apply" /\ ev.name = "AllCellsMustHaveMathOp"
  /\ Top.pc = "pass"
  /\ Bare(ev.before, UNION {Range(Top.returned[j]) : j \in DOMAIN Top.returned}
                     \cup {Top.p.constraints[j] :
                             j \in {k \in DOMAIN Top.p.constraints : k >= Top.i}})
     /= {}

\* C37: a technique changes a cell that is initialized only by taking
\* candidates away: the candidates it leaves are among those it found.
C37_CandidatesShrink ==
  [][(/\ stack /= <<>> /\ Len(stack') = Len(stack)
      /\ Top.pc = "pass"
      /\ ev'.op \in {"technique", "raise"})
     => \A l \in DOMAIN Top.p.cells :
          Top.p.cells[l] /= {Star}
          => stack'[Len(stack')].p.cells[l] \subseteq Top.p.cells[l]
    ]_vars

\* ------------------------------------------------- calls on two Regions

\* a Region object: which object it is, and its cells in construction order
RegionObject(id, cells) == [id |-> id, cells |-> cells]

\* Region defines no __eq__: == on two Regions is the identity of objects
RegionEquals(region, other) == region.id = other.id

\* the lists of distinct cells of a row of three
CellLists == UNION {Orderings(S) : S \in SUBSET Locs1x3}

\* a call on a Region with another Region, or with itself, as argument
RegionCalls ==
  {[region |-> RegionObject(1, s), other |-> RegionObject(2, o)] :
     s \in CellLists, o \in CellLists}
  \cup {[region |-> RegionObject(1, s), other |-> RegionObject(1, s)] :
          s \in CellLists}

RegionOutcome(op, ret) == [op |-> op, ret |-> ret]

RegionInit ==
  /\ input \in RegionCalls
  /\ stack = <<>>
  /\ ev = NoEvent

hasProperSubsetCalled ==
  /\ ev = NoEvent
  /\ ev' = RegionOutcome("hasProperSubset",
                         hasProperSubset(input.region.cells, input.other.cells))
  /\ UNCHANGED <<stack, input>>

intersectCalled ==
  /\ ev = NoEvent
  /\ ev' = RegionOutcome("intersect",
                         intersect(input.region.cells, input.other.cells))
  /\ UNCHANGED <<stack, input>>

subtractCalled ==
  /\ ev = NoEvent
  /\ ev' = RegionOutcome("subtract",
                         subtract(input.region.cells, input.other.cells))
  /\ UNCHANGED <<stack, input>>

equalsCalled ==
  /\ ev = NoEvent
  /\ ev' = RegionOutcome("==", RegionEquals(input.region, input.other))
  /\ UNCHANGED <<stack, input>>

RegionNext ==
  \/ hasProperSubsetCalled
  \/ intersectCalled
  \/ subtractCalled
  \/ equalsCalled

RegionSpec == RegionInit /\ [][RegionNext]_vars

\* the list r holds exactly the cells of the set, in the order of the list s
InOrderOf(r, cells, s) ==
  /\ Range(r) = cells
  /\ Len(r) = Cardinality(cells)
  /\ \A j, k \in DOMAIN r : j < k => IndexOf(s, r[j]) < IndexOf(s, r[k])

\* C39: intersect(other) returns the cells common to both regions in self's
\* order; subtract(other) returns self's cells that are not in other, in
\* self's order; hasProperSubset(other) holds iff every cell of other is in
\* self and other has strictly fewer cells; two Regions holding the same
\* cells in different orders compare equal.
C39_RegionAlgebra ==
  LET s == input.region.cells
      o == input.other.cells
  IN /\ ev.op = "intersect" => InOrderOf(ev.ret, Range(s) \cap Range(o), s)
     /\ ev.op = "subtract" => InOrderOf(ev.ret, Range(s) \ Range(o), s)
     /\ ev.op = "hasProperSubset"
        => (ev.ret <=> Range(o) \subseteq Range(s) /\ Len(o) < Len(s))
     /\ (ev.op = "==" /\ Range(s) = Range(o) /\ s /= o) => ev.ret

\* ------------------------------------------------ calls of factorizations

\* The largest number factored.
MaxN == 24
\* The most factors asked for.
MaxM == 3

FactoringInit ==
  /\ input \in [n : 1..MaxN, m : 1..MaxM]
  /\ stack = <<>>
  /\ ev = NoEvent

\* list(factorizations(n, m))
factorizationsCalled ==
  /\ ev = NoEvent
  /\ ev' = RegionOutcome("factorizations", factorizations(input.n, input.m))
  /\ UNCHANGED <<stack, input>>

FactoringNext == factorizationsCalled

FactoringSpec == FactoringInit /\ [][FactoringNext]_vars

\* C40: factorizations(n, m) yields exactly the multisets of m positive
\* integers whose product is n, each once, each as an ascending list (m
\* positive integers with product n are divisors of n); factorizations(1, k)
\* yields the single list of k ones.
C40_Factorizations ==
  ev.op = "factorizations"
  => LET all == Multisets({d \in 1..input.n : input.n % d = 0}, input.m, input.n)
     IN /\ Range(ev.ret) = all
        /\ Len(ev.ret) = Cardinality(all)
        /\ input.n = 1 => ev.ret = <<[k \in 1..input.m |-> 1]>>

\* a number was factored in more than two ways into three factors, one of
\* them with a repeated factor and none equal to 1
C40_SeveralWays ==
  /\ ev.op = "factorizations"
  /\ input.m = 3
  /\ Len(ev.ret) > 2
  /\ \E k \in DOMAIN ev.ret : ev.ret[k][1] > 1 /\ ev.ret[k][1] = ev.ret[k][2]

=============================================================================
